---- MODULE Spec2Model ----
(***************************************************************************)
(* Model of the pod-placement admission gate of the multiarch tuning       *)
(* operator: PodSchedulingGateMutatingWebHook.Handle, the response it      *)
(* builds, and the delayed "scheduling gate added" event task it submits   *)
(* to the worker pool; the image-architecture cache (resolve); and the    *)
(* placement functions of the pod model (intersection of the image         *)
(* architectures, architecture predicate, required node affinity); and the *)
(* registries and policy configuration of package system_config.           *)
(***************************************************************************)
EXTENDS Integers, Sequences, FiniteSets, TLC

VARIABLES
    pod,            \* the pod object the operations act on (as decoded / as stored)
    orig,           \* the pod as it was submitted to the last Handle
    resp,           \* the admission.Response of the last Handle
    lastIn,         \* the faults injected into the last Handle (decode, marshal, submit)
    visible,        \* TRUE when the pod can be read through the cluster API
    ProcessedPodsWH,\* metrics.ProcessedPodsWH
    GatedPods,      \* metrics.GatedPods
    GatedPodsGauge, \* metrics.GatedPodsGauge
    ResponseTime,   \* number of observations of the metrics.ResponseTime histogram
    submits,        \* number of workerPool.Submit calls
    submitErrs,     \* number of "Failed to submit" error log lines
    tasks,          \* the jobs the worker pool holds (accepted and not yet finished)
    results,        \* how the finished jobs ended
    events,         \* the events recorded by the recorder, in order
    cache,          \* the image cache: image key -> cached architecture set
    inflight,       \* the remote inspections in flight
    calls,          \* the resolve calls made so far, in order of arrival
    containers,     \* the containers of the pod to place
    initContainers, \* its init containers
    images,         \* the distinct images imagesNamesSet returned
    resolved,       \* the images of the pod resolved so far, with their answers
    supportedArchitecturesSet, \* the running intersection
    intersection,   \* what intersectImagesArchitecture returned
    predicate,      \* what getArchitecturePredicate returned
    affinity,       \* pod.Spec.Affinity
    affinity0,      \* pod.Spec.Affinity as it was before SetNodeAffinityArchRequirement
    applied,        \* number of times the architecture requirement was set on the pod
    Registries,     \* registriesConf.Registries: the list of *registryConf
    registriesMap,  \* registriesConf.registriesMap: location -> *registryConf
    registryConfs,  \* the registryConf objects allocated so far, by pointer
    Transports,     \* policyConf.Transports of the caller's policy
    tuple,          \* the registryCertTuple getFolderName is called on
    lastCall        \* the last call on the system configuration and what it returned

webhookVars == <<pod, orig, resp, lastIn, visible, ProcessedPodsWH, GatedPods,
                 GatedPodsGauge, ResponseTime, submits, submitErrs, tasks, results, events>>
cacheVars == <<cache, inflight, calls>>
placementVars == <<containers, initContainers, images, resolved, supportedArchitecturesSet,
                   intersection, predicate, affinity, affinity0, applied>>
configVars == <<Registries, registriesMap, registryConfs, Transports, tuple, lastCall>>
vars == <<webhookVars, cacheVars, placementVars, configVars>>

-----------------------------------------------------------------------------
(* Bounds of the model *)

\* longest scheduling-gate list of a submitted pod
MaxGates == 2
\* number of Handle invocations in one behaviour
MaxRequests == 2
\* number of jobs the worker pool runs at the same time
PoolSize == 1

-----------------------------------------------------------------------------
(* Program constants *)

StatusBadRequest == 400
StatusInternalServerError == 500
\* wait.Backoff{Duration: 2 * time.Millisecond, Factor: 2, Steps: 15}
Steps == 15
\* in milliseconds
Duration == 2
Factor == 2
\* context.WithTimeout(context.Background(), 2*time.Minute), in milliseconds
TaskTimeout == 120000

SchedulingGateName == "multiarch.openshift.io/scheduling-gate"
NodeAffinityLabel == "multiarch.openshift.io/node-affinity"
NodeAffinityLabelValueNotSet == "not-set"
SchedulingGateLabel == "multiarch.openshift.io/scheduling-gate"
SchedulingGateLabelValueGated == "gated"
ControlPlaneNodeSelectorLabel == "node-role.kubernetes.io/control-plane"
MasterNodeSelectorLabel == "node-role.kubernetes.io/master"
ArchitectureAwareSchedulingGateAdded == "ArchitectureAwareSchedulingGateAdded"
EventTypeNormal == "Normal"

\* var schedulingGate = corev1.PodSchedulingGate{Name: utils.SchedulingGateName}
schedulingGate == SchedulingGateName

\* utils.Namespace(): the namespace the operator runs in (here "mto")
Namespace == <<"m", "t", "o">>

-----------------------------------------------------------------------------
(* Values *)

\* A Go map: nil, or a function from its keys to its values.
EmptyMap == [k \in {} |-> ""]
NilMap == [isNil |-> TRUE, m |-> EmptyMap]
MapOf(f) == [isNil |-> FALSE, m |-> f]

\* A Go slice: nil, or a sequence.
NilList == [isNil |-> TRUE, l |-> <<>>]
ListOf(s) == [isNil |-> FALSE, l |-> s]

\* strings.HasPrefix on strings represented as sequences of characters
HasPrefix(s, prefix) ==
    /\ Len(s) >= Len(prefix)
    /\ SubSeq(s, 1, Len(prefix)) = prefix

KubePrefix == <<"k", "u", "b", "e", "-">>
HypershiftPrefix == <<"h", "y", "p", "e", "r", "s", "h", "i", "f", "t", "-">>

NsDefault == <<"d", "e", "f", "a", "u", "l", "t">>
NsKubeSystem == KubePrefix \o <<"s", "y", "s", "t", "e", "m">>
NsKubed == <<"k", "u", "b", "e", "d">>
NsHypershift == HypershiftPrefix \o <<"x">>
NsHypershiftNoDash == <<"h", "y", "p", "e", "r", "s", "h", "i", "f", "t">>
NsOperatorLike == Namespace \o <<"2">>

-----------------------------------------------------------------------------
(* Pods *)

\* metav1.OwnerReference: Controller is a *bool ("nil", "true" or "false")
OwnerRef(kind, controller) == [kind |-> kind, controller |-> controller]

Namespaces ==
    {NsDefault, Namespace, NsOperatorLike, NsKubeSystem, NsKubed,
     NsHypershift, NsHypershiftNoDash}

NodeNames == {"", "node-1"}

NodeSelectors ==
    {NilMap, MapOf(EmptyMap), MapOf("foo" :> "bar"),
     MapOf(ControlPlaneNodeSelectorLabel :> ""),
     MapOf((MasterNodeSelectorLabel :> "") @@ ("foo" :> "bar"))}

OwnerLists ==
    {<<>>, <<OwnerRef("DaemonSet", "true")>>, <<OwnerRef("DaemonSet", "false")>>,
     <<OwnerRef("DaemonSet", "nil")>>}

GateNames == {schedulingGate, "other-gate"}

CountGate(s, g) == Cardinality({i \in DOMAIN s : s[i] = g})

\* gate lists of submitted pods: at most one gate of the well-known name
GateSeqs ==
    {s \in UNION {[1..n -> GateNames] : n \in 0..MaxGates} :
        CountGate(s, schedulingGate) <= 1}

GateLists == {NilList} \cup {ListOf(s) : s \in GateSeqs}

BaseLabels == MapOf("app" :> "x")

LabelMaps ==
    {NilMap, MapOf(EmptyMap), BaseLabels,
     MapOf((NodeAffinityLabel :> "set") @@ ("app" :> "x")),
     MapOf(SchedulingGateLabel :> "removed")}

Affinities == {"nil", "user-affinity"}

\* the submitted pods: any gate list, and at most one other field that differs
\* from a plain labelled pod of the default namespace
InputPods ==
    {p \in [ns : Namespaces, name : {"pod-a"}, nodeName : NodeNames,
            nodeSelector : NodeSelectors, gates : GateLists, labels : LabelMaps,
            owners : OwnerLists, affinity : Affinities] :
        Cardinality({d \in {"ns", "nodeName", "nodeSelector", "owners", "labels",
                            "affinity"} :
            \/ d = "ns" /\ p.ns # NsDefault
            \/ d = "nodeName" /\ p.nodeName # ""
            \/ d = "nodeSelector" /\ p.nodeSelector # NilMap
            \/ d = "owners" /\ p.owners # <<>>
            \/ d = "labels" /\ p.labels # BaseLabels
            \/ d = "affinity" /\ p.affinity # "user-affinity"}) <= 1}

NoPod ==
    [ns |-> <<>>, name |-> "", nodeName |-> "", nodeSelector |-> NilMap,
     gates |-> NilList, labels |-> NilMap, owners |-> <<>>, affinity |-> "nil"]

\* json.Marshal of a pod and the patch built from it: the fields tagged
\* omitempty are left out when empty, so an empty map or list reads back as absent
Marshal(p) ==
    [p EXCEPT !.nodeSelector = IF DOMAIN p.nodeSelector.m = {} THEN NilMap ELSE @,
              !.gates = IF p.gates.l = <<>> THEN NilList ELSE @,
              !.labels = IF DOMAIN p.labels.m = {} THEN NilMap ELSE @]

-----------------------------------------------------------------------------
(* utils *)

\* utils.HasControlPlaneNodeSelector
HasControlPlaneNodeSelector(nodeSelector) ==
    \/ MasterNodeSelectorLabel \in DOMAIN nodeSelector.m
    \/ ControlPlaneNodeSelectorLabel \in DOMAIN nodeSelector.m

-----------------------------------------------------------------------------
(* PodSchedulingGateMutatingWebHook *)

\* admission.Errored: denied, with the status code
Errored(code) == [kind |-> "errored", code |-> code, pod |-> NoPod]
\* admission.PatchResponseFromRaw: allowed, with the patch that yields p
Patched(p) == [kind |-> "patch", code |-> 0, pod |-> p]
NoResponse == [kind |-> "none", code |-> 0, pod |-> NoPod]

\* mutant: a failed json.Marshal lets the request through unpatched
patchedPodResponse_AllowOnError(p, marshalOK) ==
    IF ~marshalOK
    THEN [kind |-> "allowed", code |-> 200, pod |-> NoPod]
    ELSE Patched(Marshal(p))

\* patchedPodResponse: marshalOK is the outcome of json.Marshal
patchedPodResponse(p, marshalOK) ==
    IF ~marshalOK
    THEN Errored(StatusInternalServerError)
    ELSE Patched(Marshal(p))

\* mutant: a decode failure reported as an internal error
DecodeErrorResponse_Internal == Errored(StatusInternalServerError)

\* the answer of Handle to a request the decoder rejects
DecodeErrorResponse == Errored(StatusBadRequest)

\* mutant: the label is set only when the pod has none
SetNodeAffinityLabel_KeepExisting(p) ==
    [p EXCEPT !.labels =
        MapOf(p.labels.m @@ (NodeAffinityLabel :> NodeAffinityLabelValueNotSet))]

\* Handle: pod.Labels[utils.NodeAffinityLabel] = utils.NodeAffinityLabelValueNotSet
SetNodeAffinityLabel(p) ==
    [p EXCEPT !.labels =
        MapOf((NodeAffinityLabel :> NodeAffinityLabelValueNotSet) @@ p.labels.m)]

\* mutant: the hypershift- namespaces are not ignored
IgnoringRule_NoHypershift(p) ==
    \/ Namespace = p.ns
    \/ HasPrefix(p.ns, KubePrefix)
    \/ p.nodeName # ""
    \/ (~p.nodeSelector.isNil /\ HasControlPlaneNodeSelector(p.nodeSelector))

\* Handle: the condition under which the pod is ignored
IgnoringRule(p) ==
    \/ Namespace = p.ns
    \/ HasPrefix(p.ns, HypershiftPrefix)
    \/ HasPrefix(p.ns, KubePrefix)
    \/ p.nodeName # ""
    \/ (~p.nodeSelector.isNil /\ HasControlPlaneNodeSelector(p.nodeSelector))

\* mutant: only the first gate of the list is looked at
GateAlreadyPresent_FirstOnly(p) ==
    Len(p.gates.l) > 0 /\ p.gates.l[1] = SchedulingGateName

\* Handle: the loop that looks for the gate
GateAlreadyPresent(p) ==
    \E i \in DOMAIN p.gates.l : p.gates.l[i] = SchedulingGateName

\* mutant: the gate is put in front of the list
AddGate_Prepend(p) ==
    [p EXCEPT !.gates = ListOf(<<schedulingGate>> \o p.gates.l),
              !.labels = MapOf((SchedulingGateLabel :> SchedulingGateLabelValueGated)
                               @@ p.labels.m)]

\* mutant: the gate list is replaced by the gate alone
AddGate_Replace(p) ==
    [p EXCEPT !.gates = ListOf(<<schedulingGate>>),
              !.labels = MapOf((SchedulingGateLabel :> SchedulingGateLabelValueGated)
                               @@ p.labels.m)]

\* Handle: append the gate and set the "gated" label
AddGate(p) ==
    [p EXCEPT !.gates = ListOf(Append(p.gates.l, schedulingGate)),
              !.labels = MapOf((SchedulingGateLabel :> SchedulingGateLabelValueGated)
                               @@ p.labels.m)]

\* mutant: the "gated" label is set before the gate is looked for
Mutate_LabelFirst(p) ==
    LET labelled == SetNodeAffinityLabel(p)
        withList == [labelled EXCEPT
                        !.gates = ListOf(labelled.gates.l),
                        !.labels = MapOf((SchedulingGateLabel :> SchedulingGateLabelValueGated)
                                         @@ labelled.labels.m)]
    IN  IF IgnoringRule(labelled)
        THEN [pod |-> labelled, path |-> "ignored"]
        ELSE IF GateAlreadyPresent(withList)
             THEN [pod |-> withList, path |-> "present"]
             ELSE [pod |-> AddGate(withList), path |-> "gated"]

\* Handle, from the decoded pod to the pod handed to patchedPodResponse:
\* path is "ignored", "present" or "gated"
Mutate(p) ==
    LET labelled == SetNodeAffinityLabel(p)
        withList == [labelled EXCEPT !.gates = ListOf(labelled.gates.l)]
    IN  IF IgnoringRule(labelled)
        THEN [pod |-> labelled, path |-> "ignored"]
        ELSE IF GateAlreadyPresent(withList)
             THEN [pod |-> withList, path |-> "present"]
             ELSE [pod |-> AddGate(withList), path |-> "gated"]

\* a job of the worker pool: the closure holds the pod's namespace and name
\* and the wait.Backoff of its loop; polls counts the Get calls made, waited
\* the time slept between them, last is the answer to the latest Get; reqCtx is
\* the context of the request that submitted it, expired tells that the job's
\* own deadline has passed
Task(id, p) ==
    [id |-> id, ns |-> p.ns, name |-> p.name, status |-> "queued", steps |-> Steps,
     delay |-> Duration, polls |-> 0, waited |-> 0, last |-> "none",
     reqCtx |-> "open", expired |-> FALSE]

\* delayedSchedulingGatedEvent, the part that runs inside Handle:
\* Submit succeeds when the pool accepts the job
delayedSchedulingGatedEvent(p, submitOK) ==
    /\ submits' = submits + 1
    /\ IF submitOK /\ Cardinality(tasks) < PoolSize
       THEN /\ tasks' = tasks \cup {Task(submits + 1, p)}
            /\ submitErrs' = submitErrs
       ELSE /\ tasks' = tasks
            /\ submitErrs' = submitErrs + 1

\* mutant: a failed Submit fails the request
GatedResponse_FailOnSubmit(p, marshalOK, submitted) ==
    IF ~submitted
    THEN Errored(StatusInternalServerError)
    ELSE patchedPodResponse(p, marshalOK)

\* Handle: the response returned after delayedSchedulingGatedEvent has
\* returned; submitted tells whether the pool took the job (the function
\* returns nothing to Handle)
GatedResponse(p, marshalOK, submitted) == patchedPodResponse(p, marshalOK)

\* Handle: the response for a decoded pod
Respond(p, marshalOK, submitted) ==
    LET m == Mutate(p)
    IN  IF m.path = "gated"
        THEN GatedResponse(m.pod, marshalOK, submitted)
        ELSE patchedPodResponse(m.pod, marshalOK)

NoInput == [decode |-> "none", marshal |-> "none", submit |-> "none", path |-> "none"]

Outcome(ok) == IF ok THEN "ok" ELSE "failed"

\* mutant: the gated counters are incremented only when the job was submitted
Handle_CountSubmitted(decodeOK, marshalOK, submitOK) ==
    /\ ProcessedPodsWH < MaxRequests
    /\ ProcessedPodsWH' = ProcessedPodsWH + 1
    /\ ResponseTime' = ResponseTime + 1
    /\ orig' = pod
    /\ IF ~decodeOK
       THEN /\ resp' = DecodeErrorResponse
            /\ lastIn' = [NoInput EXCEPT !.decode = "failed"]
            /\ UNCHANGED <<pod, GatedPods, GatedPodsGauge, submits, submitErrs, tasks>>
       ELSE LET m == Mutate(pod)
            IN  /\ IF m.path = "gated"
                   THEN /\ delayedSchedulingGatedEvent(m.pod, submitOK)
                        /\ GatedPods' = GatedPods + (IF submitErrs' = submitErrs THEN 1 ELSE 0)
                        /\ GatedPodsGauge' = GatedPodsGauge + (IF submitErrs' = submitErrs THEN 1 ELSE 0)
                   ELSE UNCHANGED <<GatedPods, GatedPodsGauge, submits, submitErrs, tasks>>
                /\ resp' = Respond(pod, marshalOK, submitErrs' = submitErrs)
                /\ lastIn' = [decode |-> "ok", marshal |-> Outcome(marshalOK),
                              submit |-> IF m.path # "gated" THEN "none"
                                         ELSE Outcome(submitErrs' = submitErrs),
                              path |-> m.path]
                /\ pod' = IF resp'.kind = "patch" THEN resp'.pod ELSE pod
    /\ UNCHANGED <<configVars, cacheVars, placementVars, visible, results, events>>

\* Handle: one admission request
Handle(decodeOK, marshalOK, submitOK) ==
    /\ ProcessedPodsWH < MaxRequests
    /\ ProcessedPodsWH' = ProcessedPodsWH + 1
    /\ ResponseTime' = ResponseTime + 1
    /\ orig' = pod
    /\ IF ~decodeOK
       THEN /\ resp' = DecodeErrorResponse
            /\ lastIn' = [NoInput EXCEPT !.decode = "failed"]
            /\ UNCHANGED <<pod, GatedPods, GatedPodsGauge, submits, submitErrs, tasks>>
       ELSE LET m == Mutate(pod)
            IN  /\ IF m.path = "gated"
                   THEN /\ delayedSchedulingGatedEvent(m.pod, submitOK)
                        /\ GatedPods' = GatedPods + 1
                        /\ GatedPodsGauge' = GatedPodsGauge + 1
                   ELSE UNCHANGED <<GatedPods, GatedPodsGauge, submits, submitErrs, tasks>>
                /\ resp' = Respond(pod, marshalOK, submitErrs' = submitErrs)
                /\ lastIn' = [decode |-> "ok", marshal |-> Outcome(marshalOK),
                              submit |-> IF m.path # "gated" THEN "none"
                                         ELSE Outcome(submitErrs' = submitErrs),
                              path |-> m.path]
                /\ pod' = IF resp'.kind = "patch" THEN resp'.pod ELSE pod
    /\ UNCHANGED <<configVars, cacheVars, placementVars, visible, results, events>>

-----------------------------------------------------------------------------
(* The job submitted by delayedSchedulingGatedEvent *)

\* the worker picks the job up: context.WithTimeout, then wait.ExponentialBackoff
TaskStart(t) ==
    /\ t.status = "queued"
    /\ tasks' = (tasks \ {t}) \cup {[t EXCEPT !.status = "polling"]}
    /\ UNCHANGED <<configVars, cacheVars, placementVars, pod, orig, resp, lastIn, visible, ProcessedPodsWH, GatedPods,
                   GatedPodsGauge, ResponseTime, submits, submitErrs, results, events>>

\* mutant: the job polls with the context of the admission request
CtxDone_OfRequest(t) == t.expired \/ t.reqCtx = "done"

\* the context the job hands to Get is done: it is the job's own context,
\* context.WithTimeout(context.Background(), 2*time.Minute)
CtxDone(t) == t.expired

\* clientSet.CoreV1().Pods(namespace).Get(ctx, name): the answers the API can
\* give; "error" is any error that is not NotFound, the only answer once the
\* context is done
GetAnswers(t) ==
    IF CtxDone(t)
    THEN {"error"}
    ELSE {"error"} \cup
         (IF visible /\ pod.ns = t.ns /\ pod.name = t.name
          THEN {"found"} ELSE {"notfound"})

\* mutant: the event is recorded on a pod that carries the gate, as the pod
\* held by the webhook did, whatever the cluster holds now
Event_OnGatedPod(id, obj) ==
    [task |-> id,
     obj |-> IF GateAlreadyPresent(obj) THEN obj
             ELSE [obj EXCEPT !.gates = ListOf(Append(obj.gates.l, schedulingGate))],
     type |-> EventTypeNormal,
     reason |-> ArchitectureAwareSchedulingGateAdded]

\* recorder.Event(createdPod, corev1.EventTypeNormal,
\*                ArchitectureAwareSchedulingGateAdded, SchedulingGateAddedMsg)
Event(id, obj) ==
    [task |-> id, obj |-> obj, type |-> EventTypeNormal,
     reason |-> ArchitectureAwareSchedulingGateAdded]

\* mutant: the condition function records no event
Emits_Never(answer) == FALSE

\* the condition function: err == nil records the event
Emits(answer) == answer = "found"

\* mutant: the condition returns (false, nil) after recording the event
Continues_AfterFound(steps, answer) == answer \in {"found", "notfound"} /\ steps > 1

\* mutant: the condition returns (false, nil) for every error
Continues_OnAnyError(steps, answer) == answer \in {"notfound", "error"} /\ steps > 1

\* mutant: the loop goes on whatever steps are left
Continues_NoStepLimit(steps, answer) == answer = "notfound"

\* the backoff loop goes on to another attempt: the condition returned
\* (false, nil) and steps are left
Continues(steps, answer) == answer = "notfound" /\ steps > 1

\* wait.ExponentialBackoff after an attempt that goes on: time.Sleep(backoff.Step()),
\* where Step takes one of the steps, returns the delay and multiplies it by Factor
Sleep(t, answer) ==
    [t EXCEPT !.steps = @ - 1, !.polls = @ + 1, !.waited = @ + t.delay,
              !.delay = @ * Factor, !.last = answer]

\* how the job ends when the loop does not go on
Result(answer) ==
    IF answer = "found" THEN "found"
    ELSE IF answer = "notfound" THEN "exhausted"
    ELSE "error"

\* the job logs "Failed to get a scheduling gated Pod after retries"
Logs(result) == result # "found"

\* one attempt of the backoff loop
TaskPoll(t, answer) ==
    /\ t.status = "polling"
    /\ answer \in GetAnswers(t)
    /\ events' = IF Emits(answer) THEN Append(events, Event(t.id, pod)) ELSE events
    /\ IF Continues(t.steps, answer)
       THEN /\ tasks' = (tasks \ {t}) \cup {Sleep(t, answer)}
            /\ results' = results
       ELSE /\ tasks' = tasks \ {t}
            /\ results' = results \cup
                    {[task |-> t.id, result |-> Result(answer),
                      logged |-> Logs(Result(answer))]}
    /\ UNCHANGED <<configVars, cacheVars, placementVars, pod, orig, resp, lastIn, visible, ProcessedPodsWH, GatedPods,
                   GatedPodsGauge, ResponseTime, submits, submitErrs>>

\* the context of the admission request is cancelled or closed
RequestContextDone(t) ==
    /\ t.reqCtx = "open"
    /\ tasks' = (tasks \ {t}) \cup {[t EXCEPT !.reqCtx = "done"]}
    /\ UNCHANGED <<configVars, cacheVars, placementVars, pod, orig, resp, lastIn, visible, ProcessedPodsWH, GatedPods,
                   GatedPodsGauge, ResponseTime, submits, submitErrs, results, events>>

\* the 2 minutes of the job's own context pass
TaskDeadline(t) ==
    /\ t.status = "polling"
    /\ ~t.expired
    /\ tasks' = (tasks \ {t}) \cup {[t EXCEPT !.expired = TRUE]}
    /\ UNCHANGED <<configVars, cacheVars, placementVars, pod, orig, resp, lastIn, visible, ProcessedPodsWH, GatedPods,
                   GatedPodsGauge, ResponseTime, submits, submitErrs, results, events>>

-----------------------------------------------------------------------------
(* The cluster around the webhook *)

\* the API server persists the pod the webhook allowed
ApiPersist ==
    /\ resp.kind = "patch"
    /\ ~visible
    /\ visible' = TRUE
    /\ UNCHANGED <<configVars, cacheVars, placementVars, pod, orig, resp, lastIn, ProcessedPodsWH, GatedPods, GatedPodsGauge,
                   ResponseTime, submits, submitErrs, tasks, results, events>>

\* HasSchedulingGate: the gate list holds a gate of the well-known name
HasSchedulingGate(p) == \E i \in DOMAIN p.gates.l : p.gates.l[i] = SchedulingGateName

\* mutant: the list is always rebuilt, a nil one too
RemoveSchedulingGate_Rebuild(p) ==
    [p EXCEPT !.gates =
        ListOf(SelectSeq(p.gates.l, LAMBDA g : g # SchedulingGateName))]

\* Pod.RemoveSchedulingGate: drops the gate of the well-known name, keeps the
\* others in order; a nil or empty list is left as it is
RemoveSchedulingGate(p) ==
    IF Len(p.gates.l) = 0
    THEN p
    ELSE [p EXCEPT !.gates =
            ListOf(SelectSeq(p.gates.l, LAMBDA g : g # SchedulingGateName))]

\* a caller asks whether the pod holds the gate
HasSchedulingGateCall ==
    /\ orig' = pod
    /\ lastIn' = [NoInput EXCEPT !.path =
                    IF HasSchedulingGate(pod) THEN "has gate" ELSE "has no gate"]
    /\ UNCHANGED <<configVars, cacheVars, placementVars, pod, resp, visible, ProcessedPodsWH, GatedPods,
                   GatedPodsGauge, ResponseTime, submits, submitErrs, tasks, results, events>>

\* Pod.ensureSchedulingGate: the gate is appended unless the list holds it
ensureSchedulingGate(p) ==
    IF HasSchedulingGate(p)
    THEN p
    ELSE [p EXCEPT !.gates = ListOf(Append(p.gates.l, schedulingGate))]

\* a caller ensures the gate of the pod it holds
ensureSchedulingGateCall ==
    /\ orig' = pod
    /\ pod' = ensureSchedulingGate(pod)
    /\ lastIn' = [NoInput EXCEPT !.path = "gate ensured"]
    /\ UNCHANGED <<configVars, cacheVars, placementVars, resp, visible, ProcessedPodsWH, GatedPods,
                   GatedPodsGauge, ResponseTime, submits, submitErrs, tasks, results, events>>

\* a caller removes the gate of the pod it holds
RemoveSchedulingGateCall ==
    /\ orig' = pod
    /\ pod' = RemoveSchedulingGate(pod)
    /\ lastIn' = [NoInput EXCEPT !.path = "gate removed"]
    /\ UNCHANGED <<configVars, cacheVars, placementVars, resp, visible, ProcessedPodsWH, GatedPods,
                   GatedPodsGauge, ResponseTime, submits, submitErrs, tasks, results, events>>

\* the reconciler removes the gate of the stored pod and updates it
ReconcilerRemoveGate ==
    /\ visible
    /\ GateAlreadyPresent(pod)
    /\ pod' = Marshal(RemoveSchedulingGate(pod))
    /\ UNCHANGED <<configVars, cacheVars, placementVars, orig, resp, lastIn, visible, ProcessedPodsWH, GatedPods,
                   GatedPodsGauge, ResponseTime, submits, submitErrs, tasks, results, events>>

-----------------------------------------------------------------------------
(* The image-architecture cache: resolve(ref, pullSecrets) *)

\* number of resolve calls in one behaviour
MaxCalls == 3

ArchitectureAmd64 == "amd64"
ArchitectureArm64 == "arm64"
ArchitectureS390x == "s390x"

\* the cache keys: normalized image names
ImageKeys == {"//bar/foo:latest", "//bar/baz:latest"}

\* a cache entry, or its absence
NoEntry == [present |-> FALSE, archs |-> {}]
Entry(s) == [present |-> TRUE, archs |-> s]

\* what a resolution gives: an architecture set, or an error
Resolved(s) == [err |-> FALSE, archs |-> s]
ResolutionError == [err |-> TRUE, archs |-> {}]

\* what the remote inspection of an image can answer: the image is a moving
\* tag with two versions, or the inspection fails
RemoteAnswers ==
    {Resolved({ArchitectureAmd64}),
     Resolved({ArchitectureAmd64, ArchitectureArm64}),
     ResolutionError}

\* mutant: a call never waits for the fetch another call started
Lookup_NoJoin(key, skipCache) ==
    IF ~skipCache /\ cache[key].present THEN "hit" ELSE "fetch"

\* how a call is served: from the cache (only when skipCache is false), by
\* the fetch in flight for its key, or by a fetch of its own
Lookup(key, skipCache) ==
    IF ~skipCache /\ cache[key].present THEN "hit"
    ELSE IF \E f \in inflight : f.key = key THEN "join"
    ELSE "fetch"

\* mutant: every call stores the result it obtained
StoresResult_Always(skipCache) == TRUE

\* the call stores the result of the fetch it waited for
StoresResult(skipCache) == ~skipCache

\* a call that waits for the fetch numbered flight
Waiting(key, skipCache, flight) ==
    [key |-> key, skipCache |-> skipCache, pc |-> "waiting", flight |-> flight,
     got |-> ResolutionError]

\* a call of resolve arrives
resolve(key, skipCache) ==
    /\ Len(calls) < MaxCalls
    /\ LET id == Len(calls) + 1
           how == Lookup(key, skipCache)
       IN  IF how = "hit"
           THEN /\ calls' = Append(calls,
                        [key |-> key, skipCache |-> skipCache, pc |-> "done",
                         flight |-> 0, got |-> Resolved(cache[key].archs)])
                /\ inflight' = inflight
           ELSE IF how = "join"
           THEN /\ calls' = Append(calls, Waiting(key, skipCache,
                                (CHOOSE f \in inflight : f.key = key).id))
                /\ inflight' = inflight
           ELSE /\ calls' = Append(calls, Waiting(key, skipCache, id))
                /\ inflight' = inflight \cup {[id |-> id, key |-> key]}
    /\ cache' = cache
    /\ UNCHANGED <<webhookVars, placementVars, configVars>>

\* the calls that wait for fetch f
Waiters(f) == {i \in DOMAIN calls : calls[i].pc = "waiting" /\ calls[i].flight = f.id}

\* the remote inspection f ends with answer: every call that waited for it
\* gets the answer, and those that use the cache store a successful one
FetchDone(f, answer) ==
    /\ f \in inflight
    /\ inflight' = inflight \ {f}
    /\ calls' = [i \in DOMAIN calls |->
                    IF i \in Waiters(f)
                    THEN [calls[i] EXCEPT !.pc = "done", !.got = answer]
                    ELSE calls[i]]
    /\ cache' = IF ~answer.err /\ \E i \in Waiters(f) : StoresResult(calls[i].skipCache)
                THEN [cache EXCEPT ![f.key] = Entry(answer.archs)]
                ELSE cache
    /\ UNCHANGED <<webhookVars, placementVars, configVars>>

\* no image was resolved yet
CacheIdle ==
    /\ cache = [k \in ImageKeys |-> NoEntry]
    /\ inflight = {}
    /\ calls = <<>>

-----------------------------------------------------------------------------
(* The placement functions of the pod model *)

\* longest list of containers and init containers of a pod
MaxContainers == 3
\* largest number of required NodeSelectorTerms a pod is submitted with
MaxTerms == 2

ArchLabel == "kubernetes.io/arch"
NoSupportedArchLabel == "multiarch.openshift.io/no-supported-arch"
NodeSelectorOpIn == "In"
NodeSelectorOpExists == "Exists"
PullAlways == "Always"
PullIfNotPresent == "IfNotPresent"

Architectures == {ArchitectureAmd64, ArchitectureArm64, ArchitectureS390x}
\* the architectures in alphabetical order
ArchOrder == <<ArchitectureAmd64, ArchitectureArm64, ArchitectureS390x>>
Rank(a) == CHOOSE i \in DOMAIN ArchOrder : ArchOrder[i] = a

\* the image of a container, and the name it is inspected by
Images == {"bar/foo:latest", "bar/baz:latest"}
NormalizedName(image) ==
    IF image = "bar/foo:latest" THEN "//bar/foo:latest" ELSE "//bar/baz:latest"

Containers == [image : Images, imagePullPolicy : {PullIfNotPresent, PullAlways}]
ContainerLists == UNION {[1..n -> Containers] : n \in 1..MaxContainers}

\* the distinct images of the pod: containerImage{imageName, skipCache}
containerImage(c) ==
    [imageName |-> NormalizedName(c.image), skipCache |-> c.imagePullPolicy = PullAlways]
\* mutant: the init containers are left out
imagesNamesSet_NoInit(cs, ics) == {containerImage(cs[i]) : i \in DOMAIN cs}

imagesNamesSet(cs, ics) ==
    {containerImage(cs[i]) : i \in DOMAIN cs} \cup {containerImage(ics[i]) : i \in DOMAIN ics}

\* the pod's distinct images are computed
imagesNamesSetCall ==
    /\ images' = imagesNamesSet(containers, initContainers)
    /\ UNCHANGED <<webhookVars, configVars, cacheVars, containers, initContainers, resolved,
                   supportedArchitecturesSet, intersection, predicate, affinity,
                   affinity0, applied>>

\* what the inspection of an image can answer: a non-empty architecture set,
\* or an error
InspectAnswers ==
    {Resolved(s) : s \in (SUBSET Architectures) \ {{}}} \cup {ResolutionError}

\* a Go set (sets.Set[string]): nil, or a set
NilSet == [isNil |-> TRUE, s |-> {}]
SetOf(s) == [isNil |-> FALSE, s |-> s]

\* mutant: the set of the image resolved last replaces the running set
Combine_Last(acc, s) == SetOf(s)

\* the running intersection after one more image
Combine(acc, s) == IF acc.isNil THEN SetOf(s) ELSE SetOf(acc.s \cap s)

\* the lists that hold the elements of a set, each once, in any order
ListsOf(S) ==
    {l \in [1..Cardinality(S) -> S] : \A a \in S : \E i \in DOMAIN l : l[i] = a}

\* sort.Strings
RECURSIVE Insert(_, _)
Insert(x, l) ==
    IF l = <<>> THEN <<x>>
    ELSE IF Rank(x) <= Rank(Head(l)) THEN <<x>> \o l
    ELSE <<Head(l)>> \o Insert(x, Tail(l))
RECURSIVE Sort(_)
Sort(l) == IF l = <<>> THEN <<>> ELSE Insert(Head(l), Sort(Tail(l)))

\* mutant: the values are left in the order the intersection came in
Values_Unsorted(l) == ListOf(l)

\* the values of the predicate
Values(l) == ListOf(Sort(l))

\* corev1.NodeSelectorRequirement
Requirement(key, operator, values) == [key |-> key, operator |-> operator, values |-> values]
ZeroRequirement == Requirement("", "", NilList)

\* what intersectImagesArchitecture and getArchitecturePredicate return
NoIntersection == [done |-> FALSE, err |-> FALSE, arches |-> NilList]
NoPredicate == [done |-> FALSE, err |-> FALSE, expr |-> ZeroRequirement]

\* one image of the pod is resolved, in any order: an error ends the
\* function with no list, a set is intersected with the running set
ResolveImage(ref, answer) ==
    /\ ~intersection.done
    /\ ref \in imagesNamesSet(containers, initContainers)
    /\ \A r \in resolved : r.ref # ref
    /\ resolved' = resolved \cup {[ref |-> ref, answer |-> answer]}
    /\ IF answer.err
       THEN /\ intersection' = [done |-> TRUE, err |-> TRUE, arches |-> NilList]
            /\ UNCHANGED supportedArchitecturesSet
       ELSE /\ supportedArchitecturesSet' = Combine(supportedArchitecturesSet, answer.archs)
            /\ UNCHANGED intersection
    /\ UNCHANGED <<webhookVars, configVars, cacheVars, containers, initContainers, images, predicate,
                   affinity, affinity0, applied>>

\* every image is resolved: intersectImagesArchitecture returns the list of
\* the running set, in an order the set does not fix
intersectImagesArchitecture(list) ==
    /\ ~intersection.done
    /\ containers # <<>>
    /\ \A ref \in imagesNamesSet(containers, initContainers) : \E r \in resolved : r.ref = ref
    /\ list \in ListsOf(supportedArchitecturesSet.s)
    /\ intersection' = [done |-> TRUE, err |-> FALSE, arches |-> ListOf(list)]
    /\ UNCHANGED <<webhookVars, configVars, cacheVars, containers, resolved, supportedArchitecturesSet,
                   predicate, affinity, affinity0, applied, initContainers, images>>

\* the predicate for what intersectImagesArchitecture returned
Predicate(i) ==
    IF i.err THEN [done |-> TRUE, err |-> TRUE, expr |-> ZeroRequirement]
    ELSE IF Len(i.arches.l) > 0
    THEN [done |-> TRUE, err |-> FALSE,
          expr |-> Requirement(ArchLabel, NodeSelectorOpIn, Values(i.arches.l))]
    ELSE [done |-> TRUE, err |-> FALSE,
          expr |-> Requirement(NoSupportedArchLabel, NodeSelectorOpExists, NilList)]

getArchitecturePredicate ==
    /\ intersection.done
    /\ ~predicate.done
    /\ containers # <<>>
    /\ predicate' = Predicate(intersection)
    /\ UNCHANGED <<webhookVars, configVars, cacheVars, containers, resolved, supportedArchitecturesSet,
                   intersection, affinity, affinity0, applied, initContainers, images>>

\* pod.Spec.Affinity: nil, or its NodeAffinity (nil, or the required
\* NodeSelector, nil or a list of terms, and the preferred terms) and the pod
\* affinity and anti-affinity
NilNodeSelector == [isNil |-> TRUE, terms |-> <<>>]
NodeSelector(terms) == [isNil |-> FALSE, terms |-> terms]
NilNodeAffinity == [isNil |-> TRUE, required |-> NilNodeSelector, preferred |-> <<>>]
NodeAffinity(required, preferred) ==
    [isNil |-> FALSE, required |-> required, preferred |-> preferred]
NilAffinity ==
    [isNil |-> TRUE, nodeAffinity |-> NilNodeAffinity, podAffinity |-> "nil",
     podAntiAffinity |-> "nil"]
Affinity(nodeAffinity, podAffinity) ==
    [isNil |-> FALSE, nodeAffinity |-> nodeAffinity, podAffinity |-> podAffinity,
     podAntiAffinity |-> "nil"]
NodeSelectorTerm(exprs) == [matchExpressions |-> exprs]

\* mutant: an expression with the key of the requirement is replaced in place
patchTerm_Replace(term, requirement) ==
    IF \E i \in DOMAIN term.matchExpressions :
            term.matchExpressions[i].key = requirement.key
    THEN NodeSelectorTerm([i \in DOMAIN term.matchExpressions |->
                IF term.matchExpressions[i].key = requirement.key
                THEN requirement ELSE term.matchExpressions[i]])
    ELSE NodeSelectorTerm(Append(term.matchExpressions, requirement))

\* mutant: the requirement becomes the only expression of the term
patchTerm_Overwrite(term, requirement) == NodeSelectorTerm(<<requirement>>)

\* mutant: the requirement is appended without looking at the term
patchTerm_AlwaysAppend(term, requirement) ==
    NodeSelectorTerm(Append(term.matchExpressions, requirement))

\* a term that carries an expression with the key of the requirement is
\* left as it is; the requirement is appended to any other term
patchTerm(term, requirement) ==
    IF \E i \in DOMAIN term.matchExpressions :
            term.matchExpressions[i].key = requirement.key
    THEN term
    ELSE NodeSelectorTerm(Append(term.matchExpressions, requirement))

\* mutant: the new term is added after the terms the clause holds, also when
\* it holds none
NewTerms_Extra(terms, requirement) ==
    Append([i \in DOMAIN terms |-> patchTerm(terms[i], requirement)],
           NodeSelectorTerm(<<requirement, requirement>>))

\* the terms of the required clause after the requirement is set
NewTerms(terms, requirement) ==
    IF Len(terms) = 0
    THEN <<NodeSelectorTerm(<<requirement>>)>>
    ELSE [i \in DOMAIN terms |-> patchTerm(terms[i], requirement)]

setRequiredArchNodeAffinity(a, requirement) ==
    [isNil |-> FALSE,
     nodeAffinity |->
        NodeAffinity(NodeSelector(NewTerms(a.nodeAffinity.required.terms, requirement)),
                     a.nodeAffinity.preferred),
     podAffinity |-> a.podAffinity,
     podAntiAffinity |-> a.podAntiAffinity]

\* mutant: the requirement is set whatever getArchitecturePredicate returned
AffinityAfter_IgnoreError(a, p) == setRequiredArchNodeAffinity(a, p.expr)

\* the affinity after SetNodeAffinityArchRequirement: an error of
\* getArchitecturePredicate leaves the pod alone
AffinityAfter(a, p) == IF p.err THEN a ELSE setRequiredArchNodeAffinity(a, p.expr)

\* SetNodeAffinityArchRequirement: the predicate, then the required affinity
SetNodeAffinityArchRequirement ==
    /\ intersection.done
    /\ ~predicate.done
    /\ containers = <<>>
    /\ predicate' = Predicate(intersection)
    /\ affinity' = AffinityAfter(affinity, predicate')
    /\ applied' = IF predicate'.err THEN applied ELSE applied + 1
    /\ UNCHANGED <<webhookVars, configVars, cacheVars, containers, resolved, supportedArchitecturesSet,
                   intersection, affinity0, initContainers, images>>

\* the requirement is set once more on the pod, with the same predicate
MaxApplications == 2
setRequiredArchNodeAffinityAgain ==
    /\ predicate.done
    /\ ~predicate.err
    /\ containers = <<>>
    /\ applied >= 1
    /\ applied < MaxApplications
    /\ affinity' = setRequiredArchNodeAffinity(affinity, predicate.expr)
    /\ applied' = applied + 1
    /\ UNCHANGED <<webhookVars, configVars, cacheVars, containers, resolved, supportedArchitecturesSet,
                   intersection, predicate, affinity0, initContainers, images>>

\* the expressions a user writes in a term
UserRequirements ==
    <<Requirement("foo", NodeSelectorOpIn, ListOf(<<"bar">>)),
      Requirement("baz", NodeSelectorOpIn, ListOf(<<"foo">>)),
      Requirement(ArchLabel, NodeSelectorOpIn, ListOf(<<ArchitectureS390x>>))>>
UserTerms ==
    {NodeSelectorTerm(<<>>),
     NodeSelectorTerm(<<UserRequirements[1]>>),
     NodeSelectorTerm(<<UserRequirements[2]>>),
     NodeSelectorTerm(<<UserRequirements[3]>>),
     NodeSelectorTerm(<<UserRequirements[1], UserRequirements[3]>>),
     NodeSelectorTerm(<<UserRequirements[3], UserRequirements[1]>>)}
TermLists == UNION {[1..n -> UserTerms] : n \in 0..MaxTerms}
PreferredTerms == {<<>>, <<"foo In bar, weight 1">>}
PodAffinities == {"nil", "topologyKey foo"}

\* the affinities a pod is submitted with
AffinityInputs ==
    {NilAffinity}
    \cup {Affinity(NilNodeAffinity, pa) : pa \in PodAffinities}
    \cup {Affinity(NodeAffinity(NilNodeSelector, pt), pa) :
            pt \in PreferredTerms, pa \in PodAffinities}
    \cup {Affinity(NodeAffinity(NodeSelector(ts), pt), pa) :
            ts \in TermLists, pt \in PreferredTerms, pa \in PodAffinities}

\* the term holds an expression keyed by the architecture label
TermHasArch(term) ==
    \E i \in DOMAIN term.matchExpressions : term.matchExpressions[i].key = ArchLabel

\* the walk over the required terms: the first term without the architecture
\* label ends it with false
RECURSIVE EveryTermHasArch(_)
EveryTermHasArch(terms) ==
    IF terms = <<>> THEN TRUE
    ELSE IF ~TermHasArch(Head(terms)) THEN FALSE
    ELSE EveryTermHasArch(Tail(terms))

\* mutant: one term with the architecture label is enough
isNodeSelectorConfiguredForArchitecture_AnyTerm(nodeSelector, a) ==
    \/ ArchLabel \in DOMAIN nodeSelector.m
    \/ /\ ~a.isNil /\ ~a.nodeAffinity.isNil /\ ~a.nodeAffinity.required.isNil
       /\ \E i \in DOMAIN a.nodeAffinity.required.terms :
                TermHasArch(a.nodeAffinity.required.terms[i])

\* Pod.isNodeSelectorConfiguredForArchitecture: the node selector names the
\* architecture label, or the required node affinity has terms and each of
\* them has an expression of that key
isNodeSelectorConfiguredForArchitecture(nodeSelector, a) ==
    IF ArchLabel \in DOMAIN nodeSelector.m THEN TRUE
    ELSE IF a.isNil \/ a.nodeAffinity.isNil \/ a.nodeAffinity.required.isNil THEN FALSE
    ELSE IF a.nodeAffinity.required.terms = <<>> THEN FALSE
    ELSE EveryTermHasArch(a.nodeAffinity.required.terms)

\* a caller asks whether the pod is configured for an architecture
isNodeSelectorConfiguredForArchitectureCall ==
    /\ lastIn' = [NoInput EXCEPT !.path =
                    IF isNodeSelectorConfiguredForArchitecture(pod.nodeSelector, affinity)
                    THEN "configured" ELSE "not configured"]
    /\ UNCHANGED <<configVars, cacheVars, placementVars, pod, orig, resp, visible, ProcessedPodsWH,
                   GatedPods, GatedPodsGauge, ResponseTime, submits, submitErrs, tasks,
                   results, events>>

\* the node selectors of the pods the question is asked of
ArchNodeSelectors ==
    {NilMap, MapOf(EmptyMap), MapOf(ArchLabel :> ArchitectureAmd64), MapOf("foo" :> "bar"),
     MapOf((ArchLabel :> ArchitectureArm64) @@ ("foo" :> "bar"))}

\* what intersectImagesArchitecture can return
IntersectionOutcomes ==
    {[done |-> TRUE, err |-> TRUE, arches |-> NilList]}
    \cup {[done |-> TRUE, err |-> FALSE, arches |-> ListOf(l)] :
            l \in UNION {ListsOf(S) : S \in SUBSET Architectures}}

\* no pod is being placed
PlacementIdle ==
    /\ containers = <<>>
    /\ resolved = {}
    /\ supportedArchitecturesSet = NilSet
    /\ intersection = NoIntersection
    /\ predicate = NoPredicate
    /\ affinity = NilAffinity
    /\ affinity0 = NilAffinity
    /\ applied = 0
    /\ initContainers = <<>>
    /\ images = {}

-----------------------------------------------------------------------------
(* The architecture labels of the pod *)

SingleArchLabel == "multiarch.openshift.io/single-arch"
MultiArchLabel == "multiarch.openshift.io/multi-arch"
\* utils.ArchLabelValue(arch): the label of one architecture
ArchLabelValue(arch) ==
    IF arch = ArchitectureAmd64 THEN "supported-arch.multiarch.openshift.io/amd64"
    ELSE IF arch = ArchitectureArm64 THEN "supported-arch.multiarch.openshift.io/arm64"
    ELSE "supported-arch.multiarch.openshift.io/s390x"

\* the keys ensureArchitectureLabels manages
ArchitectureLabelKeys ==
    {SingleArchLabel, MultiArchLabel, NoSupportedArchLabel}
        \cup {ArchLabelValue(a) : a \in Architectures}

\* ensureLabel: the map is created when nil, the key is set or overwritten
ensureLabel(m, key, value) ==
    MapOf([x \in DOMAIN m.m \cup {key} |-> IF x = key THEN value ELSE m.m[x]])

\* the labels of an earlier resolution are cleared
ClearArchitectureLabels(m) ==
    IF m.isNil THEN m
    ELSE MapOf([x \in DOMAIN m.m \ ArchitectureLabelKeys |-> m.m[x]])

\* mutant: one value is labelled as several are
LabelsFor_NoSingle(values) ==
    <<IF Len(values) = 0 THEN NoSupportedArchLabel ELSE MultiArchLabel>>
        \o [i \in DOMAIN values |-> ArchLabelValue(values[i])]

\* the keys to set for a list of values, in the order they are set
LabelsFor(values) ==
    <<IF Len(values) = 0 THEN NoSupportedArchLabel
      ELSE IF Len(values) = 1 THEN SingleArchLabel
      ELSE MultiArchLabel>>
        \o [i \in DOMAIN values |-> ArchLabelValue(values[i])]

RECURSIVE EnsureLabels(_, _)
EnsureLabels(m, keys) ==
    IF keys = <<>> THEN m ELSE EnsureLabels(ensureLabel(m, Head(keys), ""), Tail(keys))

\* ensureArchitectureLabels(requirement) on the label map m: nothing for a
\* nil value list
ensureArchitectureLabels(m, requirement) ==
    IF requirement.values.isNil THEN m
    ELSE EnsureLabels(ClearArchitectureLabels(m), LabelsFor(requirement.values.l))

\* the pod is resolved: getArchitecturePredicate, and ensureArchitectureLabels
\* with the predicate it returned unless it returned an error
ResolveAndLabel(outcome) ==
    /\ orig' = pod
    /\ intersection' = outcome
    /\ predicate' = Predicate(outcome)
    /\ pod' = IF predicate'.err THEN pod
              ELSE [pod EXCEPT !.labels = ensureArchitectureLabels(@, predicate'.expr)]
    /\ UNCHANGED <<resp, lastIn, visible, ProcessedPodsWH, GatedPods, GatedPodsGauge,
                   ResponseTime, submits, submitErrs, tasks, results, events>>
    /\ UNCHANGED <<configVars, cacheVars, containers, initContainers, images, resolved,
                   supportedArchitecturesSet, affinity, affinity0, applied>>

\* ensureArchitectureLabels is called with a requirement of the caller
EnsureArchitectureLabelsOf(requirement) ==
    /\ orig' = pod
    /\ intersection' = NoIntersection
    /\ predicate' = [done |-> TRUE, err |-> FALSE, expr |-> requirement]
    /\ pod' = [pod EXCEPT !.labels = ensureArchitectureLabels(@, requirement)]
    /\ UNCHANGED <<resp, lastIn, visible, ProcessedPodsWH, GatedPods, GatedPodsGauge,
                   ResponseTime, submits, submitErrs, tasks, results, events>>
    /\ UNCHANGED <<configVars, cacheVars, containers, initContainers, images, resolved,
                   supportedArchitecturesSet, affinity, affinity0, applied>>

\* the requirements ensureArchitectureLabels is called with: only the values
\* are set, to nil, to an empty list or to a list of architectures
LabelRequirements ==
    {Requirement("", "", NilList)}
    \cup {Requirement("", "", ListOf(l)) :
            l \in UNION {ListsOf(S) : S \in SUBSET Architectures}}

\* the pods to label: without labels, with labels of their own, with the
\* labels of an earlier resolution
LabelPods ==
    {[NoPod EXCEPT !.ns = NsDefault, !.name = "pod-a", !.labels = m] :
        m \in {NilMap, MapOf(EmptyMap), BaseLabels,
               MapOf((SingleArchLabel :> "") @@ (ArchLabelValue(ArchitectureS390x) :> "")
                     @@ ("app" :> "x"))}}

-----------------------------------------------------------------------------
(* The registries configuration of package system_config *)

\* largest number of entries the Registries list is grown to
MaxRegistries == 3

\* the registry locations the callers name
Locations == {"quay.io", "docker.io", "registry.example.com", "localhost..5000"}

\* the pointers to registryConf objects; NilConf is the nil pointer
NilConf == 0
Pointers == 1..(MaxRegistries + 1)

\* &registryConf{Location: registry}: the other fields have their zero value
registryConf(location) ==
    [Location |-> location, Mirrors |-> <<>>, Blocked |-> "nil", Allowed |-> "nil",
     Insecure |-> "nil"]

\* mirrorFor, mirrorsFor
mirrorFor(location) == [Location |-> location]
mirrorsFor(locations) == [i \in DOMAIN locations |-> mirrorFor(locations[i])]

\* what a caller writes into the fields of an entry it holds
ConfWrites ==
    {[Mirrors |-> <<>>, Blocked |-> "nil"],
     [Mirrors |-> <<>>, Blocked |-> "true"],
     [Mirrors |-> mirrorsFor(<<"mirror.example.com">>), Blocked |-> "nil"]}

\* defaultRegistriesConf: an empty list and an empty map
NoConfs == [p \in {} |-> NilConf]
defaultRegistriesConf == [Registries |-> <<>>, registriesMap |-> NoConfs]

\* rsc as the calls see it
Rsc == [Registries |-> Registries, registriesMap |-> registriesMap]

\* the map without a key
Delete(m, key) == [k \in (DOMAIN m) \ {key} |-> m[k]]

\* mutant: a new entry is made whatever the map holds
getRegistryConfOrCreate_AlwaysCreate(rsc, confs, registry) ==
    LET rc == CHOOSE p \in Pointers :
                    p \notin DOMAIN confs /\ \A q \in Pointers \ DOMAIN confs : p <= q
    IN  [rsc |-> [Registries |-> Append(rsc.Registries, rc),
                  registriesMap |-> (registry :> rc) @@ rsc.registriesMap],
         confs |-> (rc :> registryConf(registry)) @@ confs,
         rc |-> rc, created |-> TRUE]

\* registriesConf.getRegistryConfOrCreate: the entry of the map, or a new one
\* that is put into the map and appended to the list
getRegistryConfOrCreate(rsc, confs, registry) ==
    IF registry \in DOMAIN rsc.registriesMap /\ rsc.registriesMap[registry] # NilConf
    THEN [rsc |-> rsc, confs |-> confs, rc |-> rsc.registriesMap[registry],
          created |-> FALSE]
    ELSE LET rc == CHOOSE p \in Pointers :
                        p \notin DOMAIN confs /\ \A q \in Pointers \ DOMAIN confs : p <= q
         IN  [rsc |-> [Registries |-> Append(rsc.Registries, rc),
                       registriesMap |-> (registry :> rc) @@ rsc.registriesMap],
              confs |-> (rc :> registryConf(registry)) @@ confs,
              rc |-> rc, created |-> TRUE]

\* the emptiness test of cleanupRegistryConfIfEmpty
IsEmptyConf(rc) ==
    rc.Insecure = "nil" /\ rc.Allowed = "nil" /\ rc.Blocked = "nil" /\ Len(rc.Mirrors) = 0

\* the loop of cleanupRegistryConfIfEmpty: the first element that is rc is cut
\* out of the list
CutFirst(list, rc) ==
    IF \E i \in DOMAIN list : list[i] = rc
    THEN LET i == CHOOSE i \in DOMAIN list :
                    list[i] = rc /\ \A k \in 1..(i - 1) : list[k] # rc
         IN  SubSeq(list, 1, i - 1) \o SubSeq(list, i + 1, Len(list))
    ELSE list

\* registriesConf.cleanupRegistryConfIfEmpty
cleanupRegistryConfIfEmpty(rsc, confs, registry) ==
    IF registry \in DOMAIN rsc.registriesMap
    THEN IF IsEmptyConf(confs[rsc.registriesMap[registry]])
         THEN [Registries |-> CutFirst(rsc.Registries, rsc.registriesMap[registry]),
               registriesMap |-> Delete(rsc.registriesMap, registry)]
         ELSE rsc
    ELSE rsc

\* the loop of cleanupAllRegistryConfIfEmpty: range evaluates rsc.Registries
\* once, so the loop visits the n slots of the array the list had at the
\* start, and reads each slot when it reaches it; the cut of
\* cleanupRegistryConfIfEmpty moves the elements behind it one slot down in
\* that same array and leaves the last slot as it was
RECURSIVE CleanupLoop(_, _, _, _, _)
CleanupLoop(j, n, array, rsc, confs) ==
    IF j > n
    THEN rsc
    ELSE LET next == cleanupRegistryConfIfEmpty(rsc, confs, confs[array[j]].Location)
         IN  CleanupLoop(j + 1, n,
                         next.Registries \o SubSeq(array, Len(next.Registries) + 1, n),
                         next, confs)

\* registriesConf.cleanupAllRegistryConfIfEmpty
cleanupAllRegistryConfIfEmpty(rsc, confs) ==
    CleanupLoop(1, Len(rsc.Registries), rsc.Registries, rsc, confs)

\* the objects the configuration still points to
Live(rsc, confs) ==
    [p \in {q \in DOMAIN confs :
                \/ \E i \in DOMAIN rsc.Registries : rsc.Registries[i] = q
                \/ \E k \in DOMAIN rsc.registriesMap : rsc.registriesMap[k] = q} |-> confs[p]]

\* a call on the configuration: its name and what it returns, a pointer with
\* the registry it was asked for, or a folder name
Call(op, registry, rc, name) == [op |-> op, registry |-> registry, rc |-> rc, name |-> name]
NoCall == Call("none", "", NilConf, <<>>)

getRegistryConfOrCreateCall(registry) ==
    LET r == getRegistryConfOrCreate(Rsc, registryConfs, registry)
    IN  /\ r.created => Len(Registries) < MaxRegistries
        /\ Registries' = r.rsc.Registries
        /\ registriesMap' = r.rsc.registriesMap
        /\ registryConfs' = r.confs
        /\ lastCall' = Call("getRegistryConfOrCreate", registry, r.rc, <<>>)
        /\ UNCHANGED <<webhookVars, cacheVars, placementVars, Transports, tuple>>

\* the caller writes the fields of an entry of the configuration
WriteRegistryConf(rc, write) ==
    /\ rc \in DOMAIN registryConfs
    /\ registryConfs' = [registryConfs EXCEPT ![rc] =
            [@ EXCEPT !.Mirrors = write.Mirrors, !.Blocked = write.Blocked]]
    /\ lastCall' = Call("write", "", NilConf, <<>>)
    /\ UNCHANGED <<webhookVars, cacheVars, placementVars, Registries, registriesMap,
                   Transports, tuple>>

cleanupRegistryConfIfEmptyCall(registry) ==
    LET r == cleanupRegistryConfIfEmpty(Rsc, registryConfs, registry)
    IN  /\ Registries' = r.Registries
        /\ registriesMap' = r.registriesMap
        /\ registryConfs' = Live(r, registryConfs)
        /\ lastCall' = Call("cleanupRegistryConfIfEmpty", "", NilConf, <<>>)
        /\ UNCHANGED <<webhookVars, cacheVars, placementVars, Transports, tuple>>

cleanupAllRegistryConfIfEmptyCall ==
    LET r == cleanupAllRegistryConfIfEmpty(Rsc, registryConfs)
    IN  /\ Registries' = r.Registries
        /\ registriesMap' = r.registriesMap
        /\ registryConfs' = Live(r, registryConfs)
        /\ lastCall' = Call("cleanupAllRegistryConfIfEmpty", "", NilConf, <<>>)
        /\ UNCHANGED <<webhookVars, cacheVars, placementVars, Transports, tuple>>

-----------------------------------------------------------------------------
(* The policy configuration of package system_config *)

dockerDaemonTransport == "docker-daemon"
dockerTransport == "docker"
atomicTransport == "atomic"

insecureAcceptAnythingPolicyEntry == [Type |-> "insecureAcceptAnything"]
rejectPolicyEntry == [Type |-> "reject"]

\* a map of a transport without scopes
NoScopes == [scope \in {} |-> <<>>]

\* defaultTransports
defaultTransports ==
    (dockerDaemonTransport :> ("" :> <<insecureAcceptAnythingPolicyEntry>>))
    @@ (atomicTransport :> NoScopes)
    @@ (dockerTransport :> NoScopes)

\* defaultPolicyConf
defaultPolicyConf ==
    [Default |-> <<insecureAcceptAnythingPolicyEntry>>, Transports |-> defaultTransports]

\* The methods of policyConf have a value receiver: pc is a copy of the
\* caller's struct. The copy's Transports field refers to the map of the
\* caller, so a write into the map is a write into the caller's map, while an
\* assignment to the field changes the copy only. Each method is given here
\* by the policy the caller holds when it returns.

\* policyConf.setRejectForRegistryOnTransport:
\* pc.Transports[transport][registry] = []policyEntry{rejectPolicyEntry()}
setRejectForRegistryOnTransport(pc, registry, transport) ==
    [pc EXCEPT !.Transports[transport] = (registry :> <<rejectPolicyEntry>>) @@ @]

\* policyConf.setRejectForRegistry
setRejectForRegistry(pc, registry) ==
    setRejectForRegistryOnTransport(
        setRejectForRegistryOnTransport(pc, registry, dockerTransport),
        registry, atomicTransport)

\* policyConf.resetTransports: pc.Transports = defaultTransports() assigns to
\* the field of the copy, which is dropped at the return
resetTransports(pc) ==
    LET copy == [pc EXCEPT !.Transports = defaultTransports]
    IN  pc

\* the policy the caller holds
Pc == [Default |-> defaultPolicyConf.Default, Transports |-> Transports]

setRejectForRegistryCall(registry) ==
    /\ Transports' = setRejectForRegistry(Pc, registry).Transports
    /\ lastCall' = Call("setRejectForRegistry", registry, NilConf, <<>>)
    /\ UNCHANGED <<webhookVars, cacheVars, placementVars, Registries, registriesMap,
                   registryConfs, tuple>>

setRejectForRegistryOnTransportCall(registry, transport) ==
    /\ Transports' = setRejectForRegistryOnTransport(Pc, registry, transport).Transports
    /\ lastCall' = Call("setRejectForRegistryOnTransport", registry, NilConf, <<>>)
    /\ UNCHANGED <<webhookVars, cacheVars, placementVars, Registries, registriesMap,
                   registryConfs, tuple>>

resetTransportsCall ==
    /\ Transports' = resetTransports(Pc).Transports
    /\ lastCall' = Call("resetTransports", "", NilConf, <<>>)
    /\ UNCHANGED <<webhookVars, cacheVars, placementVars, Registries, registriesMap,
                   registryConfs, tuple>>

-----------------------------------------------------------------------------
(* The folder of the certificates of a registry *)

\* longest registry name getFolderName is called with
MaxNameLen == 6

\* the characters of the names: a letter, the dot, a digit
NameChars == {"r", ".", "5"}
Names == UNION {[1..n -> NameChars] : n \in 0..MaxNameLen}

registryCertTuple(registry) == [registry |-> registry, cert |-> ""]
NoTuple == registryCertTuple(<<>>)

\* strings.Index: the position of the first instance of sub in s, 0 if none
Index(s, sub) ==
    LET at == {i \in 1..(Len(s) - Len(sub) + 1) : SubSeq(s, i, i + Len(sub) - 1) = sub}
    IN  IF at = {} THEN 0 ELSE CHOOSE i \in at : \A k \in at : i <= k

\* mutant: strings.ReplaceAll
RECURSIVE Replace_All(_, _, _)
Replace_All(s, old, new) ==
    IF Index(s, old) = 0 THEN s
    ELSE SubSeq(s, 1, Index(s, old) - 1) \o new
         \o Replace_All(SubSeq(s, Index(s, old) + Len(old), Len(s)), old, new)

\* strings.Replace(s, old, new, 1): the first instance of old is replaced
Replace(s, old, new) ==
    IF Index(s, old) = 0 THEN s
    ELSE SubSeq(s, 1, Index(s, old) - 1) \o new
         \o SubSeq(s, Index(s, old) + Len(old), Len(s))

\* registryCertTuple.getFolderName
getFolderName(t) == Replace(t.registry, <<".", ".">>, <<":">>)

getFolderNameCall ==
    /\ lastCall' = Call("getFolderName", "", NilConf, getFolderName(tuple))
    /\ UNCHANGED <<webhookVars, cacheVars, placementVars, Registries, registriesMap,
                   registryConfs, Transports, tuple>>

\* nothing of the system configuration has been touched
ConfigIdle ==
    /\ Registries = defaultRegistriesConf.Registries
    /\ registriesMap = defaultRegistriesConf.registriesMap
    /\ registryConfs = NoConfs
    /\ Transports = defaultPolicyConf.Transports
    /\ tuple = NoTuple
    /\ lastCall = NoCall

-----------------------------------------------------------------------------
(* Specification *)

Init ==
    /\ pod \in InputPods
    /\ orig = NoPod
    /\ resp = NoResponse
    /\ lastIn = NoInput
    /\ visible = FALSE
    /\ ProcessedPodsWH = 0
    /\ GatedPods = 0
    /\ GatedPodsGauge = 0
    /\ ResponseTime = 0
    /\ submits = 0
    /\ submitErrs = 0
    /\ tasks = {}
    /\ results = {}
    /\ events = <<>>
    /\ CacheIdle
    /\ ConfigIdle
    /\ PlacementIdle

Next ==
    \/ \E marshalOK \in BOOLEAN, submitOK \in BOOLEAN : Handle(TRUE, marshalOK, submitOK)
    \/ Handle(FALSE, TRUE, TRUE)
    \/ \E t \in tasks : TaskStart(t)
    \/ \E t \in tasks, answer \in {"found", "notfound", "error"} : TaskPoll(t, answer)
    \/ ApiPersist
    \/ ReconcilerRemoveGate

\* no request was handled yet
HandlerIdle ==
    /\ orig = NoPod
    /\ resp = NoResponse
    /\ lastIn = NoInput
    /\ visible = FALSE
    /\ ProcessedPodsWH = 0
    /\ GatedPods = 0
    /\ GatedPodsGauge = 0
    /\ ResponseTime = 0
    /\ submits = 0
    /\ submitErrs = 0
    /\ tasks = {}
    /\ results = {}
    /\ events = <<>>

\* no request was handled yet and no pod was submitted
WebhookIdle == pod = NoPod /\ HandlerIdle

\* The cache under concurrent resolve calls
InitCache == WebhookIdle /\ CacheIdle /\ PlacementIdle /\ ConfigIdle

NextCache ==
    \/ \E key \in ImageKeys, skipCache \in BOOLEAN : resolve(key, skipCache)
    \/ \E f \in inflight, answer \in RemoteAnswers : FetchDone(f, answer)

SpecCache == InitCache /\ [][NextCache]_vars

\* The intersection of the image architectures of a pod and its predicate
InitIntersect ==
    /\ WebhookIdle
    /\ CacheIdle
    /\ ConfigIdle
    /\ containers \in ContainerLists
    /\ resolved = {}
    /\ supportedArchitecturesSet = NilSet
    /\ intersection = NoIntersection
    /\ predicate = NoPredicate
    /\ affinity = NilAffinity
    /\ affinity0 = NilAffinity
    /\ applied = 0
    /\ initContainers = <<>>
    /\ images = {}

NextIntersect ==
    \/ \E ref \in imagesNamesSet(containers, initContainers), answer \in InspectAnswers :
            ResolveImage(ref, answer)
    \/ \E list \in ListsOf(supportedArchitecturesSet.s) : intersectImagesArchitecture(list)
    \/ getArchitecturePredicate

SpecIntersect == InitIntersect /\ [][NextIntersect]_vars

\* The required node affinity of a pod, for every outcome of the intersection
InitAffinity ==
    /\ WebhookIdle
    /\ CacheIdle
    /\ ConfigIdle
    /\ containers = <<>>
    /\ resolved = {}
    /\ supportedArchitecturesSet = NilSet
    /\ intersection \in IntersectionOutcomes
    /\ predicate = NoPredicate
    /\ affinity \in AffinityInputs
    /\ affinity0 = affinity
    /\ applied = 0
    /\ initContainers = <<>>
    /\ images = {}

NextAffinity ==
    \/ SetNodeAffinityArchRequirement
    \/ setRequiredArchNodeAffinityAgain

SpecAffinity == InitAffinity /\ [][NextAffinity]_vars

\* The architecture labels over repeated resolutions of a pod
InitLabels ==
    /\ pod \in LabelPods
    /\ HandlerIdle
    /\ CacheIdle
    /\ ConfigIdle
    /\ PlacementIdle

NextLabels ==
    \/ \E outcome \in IntersectionOutcomes : ResolveAndLabel(outcome)
    \/ \E requirement \in LabelRequirements : EnsureArchitectureLabelsOf(requirement)

SpecLabels == InitLabels /\ [][NextLabels]_vars

\* The gate functions of the pod model, on every pod that can be submitted
NextGates ==
    \/ HasSchedulingGateCall
    \/ RemoveSchedulingGateCall

SpecGates == Init /\ [][NextGates]_vars

\* imagesNamesSet on every pod of at most MaxContainers containers and as many
\* init containers
InitImages ==
    /\ WebhookIdle
    /\ CacheIdle
    /\ ConfigIdle
    /\ containers \in ContainerLists
    /\ initContainers \in ContainerLists \cup {<<>>}
    /\ images = {}
    /\ resolved = {}
    /\ supportedArchitecturesSet = NilSet
    /\ intersection = NoIntersection
    /\ predicate = NoPredicate
    /\ affinity = NilAffinity
    /\ affinity0 = NilAffinity
    /\ applied = 0

NextImages == imagesNamesSetCall

SpecImages == InitImages /\ [][NextImages]_vars

\* isNodeSelectorConfiguredForArchitecture on every pod made of a node selector
\* and an affinity
InitSelector ==
    /\ pod \in {[NoPod EXCEPT !.nodeSelector = ns] : ns \in ArchNodeSelectors}
    /\ HandlerIdle
    /\ CacheIdle
    /\ ConfigIdle
    /\ containers = <<>>
    /\ initContainers = <<>>
    /\ images = {}
    /\ resolved = {}
    /\ supportedArchitecturesSet = NilSet
    /\ intersection = NoIntersection
    /\ predicate = NoPredicate
    /\ affinity \in AffinityInputs
    /\ affinity0 = NilAffinity
    /\ applied = 0

NextSelector == isNodeSelectorConfiguredForArchitectureCall

SpecSelector == InitSelector /\ [][NextSelector]_vars

\* The life of the gate: it is inserted by Handle or by ensureSchedulingGate
\* and removed by RemoveSchedulingGate, in any order
NextRoundTrip ==
    \/ \E marshalOK \in BOOLEAN, submitOK \in BOOLEAN : Handle(TRUE, marshalOK, submitOK)
    \/ ensureSchedulingGateCall
    \/ RemoveSchedulingGateCall

SpecRoundTrip == Init /\ [][NextRoundTrip]_vars

\* the parts of the configuration
RegistriesIdle ==
    /\ Registries = defaultRegistriesConf.Registries
    /\ registriesMap = defaultRegistriesConf.registriesMap
    /\ registryConfs = NoConfs

\* The registries configuration, from defaultRegistriesConf, under any
\* sequence of calls and of writes of the callers into the entries they hold
InitRegistries == WebhookIdle /\ CacheIdle /\ PlacementIdle /\ ConfigIdle

NextRegistries ==
    \/ \E registry \in Locations : getRegistryConfOrCreateCall(registry)
    \/ \E rc \in Pointers, write \in ConfWrites : WriteRegistryConf(rc, write)
    \/ \E registry \in Locations : cleanupRegistryConfIfEmptyCall(registry)
    \/ cleanupAllRegistryConfIfEmptyCall

SpecRegistries == InitRegistries /\ [][NextRegistries]_vars

\* The policy configuration, from defaultPolicyConf
InitPolicy == WebhookIdle /\ CacheIdle /\ PlacementIdle /\ ConfigIdle

NextPolicy ==
    \/ \E registry \in Locations : setRejectForRegistryCall(registry)
    \/ \E registry \in Locations, transport \in {dockerTransport, atomicTransport} :
            setRejectForRegistryOnTransportCall(registry, transport)
    \/ resetTransportsCall

SpecPolicy == InitPolicy /\ [][NextPolicy]_vars

\* getFolderName on every name of at most MaxNameLen characters
InitFolder ==
    /\ WebhookIdle /\ CacheIdle /\ PlacementIdle /\ RegistriesIdle
    /\ Transports = defaultPolicyConf.Transports
    /\ tuple \in {registryCertTuple(name) : name \in Names}
    /\ lastCall = NoCall

NextFolder == getFolderNameCall

SpecFolder == InitFolder /\ [][NextFolder]_vars

Spec == Init /\ [][Next]_vars

\* The job with its contexts: plain pods of the default namespace, with any
\* gate list, and the steps of Next together with the cancellation of the
\* request's context and the expiry of the job's own
TaskPods ==
    {p \in InputPods :
        /\ p.ns = NsDefault /\ p.nodeName = "" /\ p.nodeSelector = NilMap
        /\ p.owners = <<>> /\ p.labels = BaseLabels /\ p.affinity = "user-affinity"}

InitTask == Init /\ pod \in TaskPods

NextTask ==
    \/ \E marshalOK \in BOOLEAN, submitOK \in BOOLEAN : Handle(TRUE, marshalOK, submitOK)
    \/ Handle(FALSE, TRUE, TRUE)
    \/ \E t \in tasks : TaskStart(t)
    \/ \E t \in tasks, answer \in {"found", "notfound", "error"} : TaskPoll(t, answer)
    \/ \E t \in tasks : RequestContextDone(t)
    \/ \E t \in tasks : TaskDeadline(t)
    \/ ApiPersist
    \/ ReconcilerRemoveGate

SpecTask == InitTask /\ [][NextTask]_vars

\* the liveness of the job is checked from a pod that is submitted without
\* gates: the job does not read the gates of its pod
InitFair == InitTask /\ pod.gates = NilList

\* The job under fair scheduling: the pool runs every job it accepted on a
\* goroutine of its own, and every Get returns, at the latest when the job's
\* context is done; the context of the request, which the job does not use,
\* is left out
NextFair ==
    \/ \E marshalOK \in BOOLEAN, submitOK \in BOOLEAN : Handle(TRUE, marshalOK, submitOK)
    \/ \E t \in tasks : TaskStart(t)
    \/ \E t \in tasks, answer \in {"found", "notfound", "error"} : TaskPoll(t, answer)
    \/ \E t \in tasks : TaskDeadline(t)
    \/ ApiPersist
    \/ ReconcilerRemoveGate

TaskFairness ==
    \A id \in 1..MaxRequests :
        /\ WF_vars(\E t \in tasks : t.id = id /\ TaskStart(t))
        /\ WF_vars(\E t \in tasks, answer \in {"found", "notfound", "error"} :
                        t.id = id /\ TaskPoll(t, answer))

SpecTaskFair == InitFair /\ [][NextFair]_vars /\ TaskFairness

\* The job in a cluster whose API answers every Get with what it holds: no
\* error other than NotFound, no expiry of the job's context
NextLive ==
    \/ \E marshalOK \in BOOLEAN, submitOK \in BOOLEAN : Handle(TRUE, marshalOK, submitOK)
    \/ Handle(FALSE, TRUE, TRUE)
    \/ \E t \in tasks : TaskStart(t)
    \/ \E t \in tasks, answer \in {"found", "notfound"} : TaskPoll(t, answer)
    \/ \E t \in tasks : RequestContextDone(t)
    \/ ApiPersist
    \/ ReconcilerRemoveGate

LiveFairness ==
    \A id \in 1..MaxRequests :
        /\ WF_vars(\E t \in tasks : t.id = id /\ TaskStart(t))
        /\ WF_vars(\E t \in tasks, answer \in {"found", "notfound"} :
                        t.id = id /\ TaskPoll(t, answer))

SpecLive == InitFair /\ [][NextLive]_vars /\ LiveFairness

-----------------------------------------------------------------------------
(* Vocabulary of the properties *)

\* the step is an invocation of Handle
HandleStep == ProcessedPodsWH' = ProcessedPodsWH + 1

\* the last Handle decoded its request
Decoded == lastIn.decode = "ok"

\* the ignoring rule as the specification lists it for namespace, nodeName
\* and node selector
Ignorable(p) ==
    \/ p.ns = Namespace
    \/ HasPrefix(p.ns, <<"k", "u", "b", "e", "-">>)
    \/ HasPrefix(p.ns, <<"h", "y", "p", "e", "r", "s", "h", "i", "f", "t", "-">>)
    \/ p.nodeName # ""
    \/ ControlPlaneNodeSelectorLabel \in DOMAIN p.nodeSelector.m
    \/ MasterNodeSelectorLabel \in DOMAIN p.nodeSelector.m

HasGate(p) == CountGate(p.gates.l, SchedulingGateName) >= 1

\* the label map m with key k set to v
WithLabel(m, k, v) == [x \in DOMAIN m \cup {k} |-> IF x = k THEN v ELSE m[x]]

\* the pod is owned by a DaemonSet that is its controller
DaemonSetControlled(p) ==
    \E i \in DOMAIN p.owners :
        p.owners[i].kind = "DaemonSet" /\ p.owners[i].controller = "true"

-----------------------------------------------------------------------------
(* Properties *)

\* C1: for a decoded pod that is not ignored and does not carry the well-known
\* gate, the pod Handle returns has the original gates (a nil list counting as
\* empty), in their order, followed by exactly one well-known gate, and carries
\* the "gated" label; Handle returns no pod only when json.Marshal failed.
C1_GateAppended ==
    (Decoded /\ ~Ignorable(orig) /\ ~HasGate(orig)) =>
        /\ (resp.kind = "patch") = (lastIn.marshal = "ok")
        /\ resp.kind = "patch" =>
            /\ resp.pod.gates = ListOf(orig.gates.l \o <<SchedulingGateName>>)
            /\ CountGate(resp.pod.gates.l, SchedulingGateName) = 1
            /\ SchedulingGateLabel \in DOMAIN resp.pod.labels.m
            /\ resp.pod.labels.m[SchedulingGateLabel] = SchedulingGateLabelValueGated

C1_Witness ==
    /\ Decoded /\ ~Ignorable(orig)
    /\ orig.gates = ListOf(<<"other-gate", "other-gate">>)
    /\ resp.kind = "patch"
    /\ Len(resp.pod.gates.l) = 3

\* C2: whatever sequence of Handle invocations and gate removals is applied
\* to a pod that starts with at most one well-known gate, neither the pod nor
\* a returned pod ever carries more than one gate of the well-known name.
C2_AtMostOneGate ==
    /\ CountGate(pod.gates.l, SchedulingGateName) <= 1
    /\ CountGate(resp.pod.gates.l, SchedulingGateName) <= 1

C2_Witness ==
    /\ GatedPods = 2
    /\ lastIn.path = "gated"
    /\ resp.kind = "patch"
    /\ pod = resp.pod

\* C3: fail closed: after every Handle the response is an error, or the pod
\* matched the ignoring rule, or the returned pod carries the well-known gate.
C3_FailClosed ==
    lastIn.decode # "none" =>
        \/ resp.kind = "errored"
        \/ Ignorable(orig)
        \/ resp.kind = "patch" /\ HasGate(resp.pod)

C3_Witness ==
    /\ lastIn.marshal = "failed"
    /\ lastIn.submit = "failed"
    /\ ~Ignorable(orig)
    /\ resp.kind = "errored"

\* C4: a Handle whose decode fails answers with an error of status 400 and
\* changes neither the pod, nor the jobs of the pool, nor the gated counters;
\* a Handle whose json.Marshal fails answers with an error of status 500.
C4_ErrorResponses ==
    [][HandleStep =>
        /\ lastIn'.decode = "failed" =>
            /\ resp'.kind = "errored" /\ resp'.code = 400
            /\ pod' = pod
            /\ tasks' = tasks /\ submits' = submits
            /\ GatedPods' = GatedPods /\ GatedPodsGauge' = GatedPodsGauge
        /\ lastIn'.marshal = "failed" =>
            resp'.kind = "errored" /\ resp'.code = 500]_vars

C4_Witness ==
    /\ lastIn.decode = "failed"
    /\ resp.kind = "errored" /\ resp.code = 400
    /\ GatedPods = 1
    /\ Cardinality(tasks) = 1

\* C5 as stated: for a pod that matches the ignoring rule, the returned pod is
\* the submitted pod, no job is submitted and the gated counters stay.
C5_IgnoredUnmodified ==
    [][(HandleStep /\ lastIn'.decode = "ok" /\ Ignorable(pod)) =>
        /\ resp'.kind = "patch" => resp'.pod = Marshal(pod)
        /\ tasks' = tasks /\ submits' = submits
        /\ GatedPods' = GatedPods /\ GatedPodsGauge' = GatedPodsGauge]_vars

\* C5 (amended): for a pod that matches the ignoring rule, the returned pod is
\* the submitted pod except for the node-affinity label, which is set to the
\* not-set value (the label map is created when absent): no gate is appended,
\* no other label is added or changed, the affinity is unchanged, no job is
\* submitted and the gated counters stay.
C5_IgnoredOnlyLabelled ==
    [][(HandleStep /\ lastIn'.decode = "ok" /\ Ignorable(pod)) =>
        /\ resp'.kind = "patch" =>
            resp'.pod =
                [Marshal(pod) EXCEPT !.labels =
                    MapOf(WithLabel(pod.labels.m, NodeAffinityLabel,
                                    NodeAffinityLabelValueNotSet))]
        /\ tasks' = tasks /\ submits' = submits
        /\ GatedPods' = GatedPods /\ GatedPodsGauge' = GatedPodsGauge]_vars

C5_Witness ==
    /\ Decoded /\ resp.kind = "patch"
    /\ orig.ns = NsHypershift
    /\ orig.gates = ListOf(<<"other-gate">>)
    /\ resp.pod.gates = orig.gates
    /\ resp.pod.affinity = "user-affinity"

\* C6: for every decoded pod, whether ignored, already gated or newly gated,
\* the returned pod maps the node-affinity label to the not-set value.
C6_NodeAffinityLabelSet ==
    (Decoded /\ resp.kind = "patch") =>
        /\ ~resp.pod.labels.isNil
        /\ NodeAffinityLabel \in DOMAIN resp.pod.labels.m
        /\ resp.pod.labels.m[NodeAffinityLabel] = NodeAffinityLabelValueNotSet

C6_Witness ==
    /\ Decoded /\ resp.kind = "patch"
    /\ lastIn.path = "present"
    /\ NodeAffinityLabel \in DOMAIN orig.labels.m
    /\ orig.labels.m[NodeAffinityLabel] = "set"

\* C7 as stated: a pod owned by a DaemonSet with controller=true is returned
\* without the gate and no job is submitted for it, and a pod whose DaemonSet
\* owner has controller=false or absent is gated.
C7_DaemonSetIgnored ==
    [][(HandleStep /\ lastIn'.decode = "ok" /\ lastIn'.marshal = "ok"
            /\ pod.owners # <<>> /\ ~HasGate(pod) /\ ~Ignorable(pod)) =>
        IF DaemonSetControlled(pod)
        THEN ~HasGate(resp'.pod) /\ tasks' = tasks /\ submits' = submits
        ELSE HasGate(resp'.pod)]_vars

\* C8 as stated: for a pod that is not ignored and carries the gate already,
\* the returned pod is the submitted pod, no job is submitted and the gated
\* counters stay.
C8_AlreadyGatedUnchanged ==
    [][(HandleStep /\ lastIn'.decode = "ok" /\ ~Ignorable(pod) /\ HasGate(pod)) =>
        /\ resp'.kind = "patch" => resp'.pod = Marshal(pod)
        /\ tasks' = tasks /\ submits' = submits
        /\ GatedPods' = GatedPods /\ GatedPodsGauge' = GatedPodsGauge]_vars

\* C8 (amended): for a pod that is not ignored and carries the gate already,
\* the returned pod is the submitted pod except for the node-affinity label,
\* which is set to the not-set value: the gate list and the affinity are
\* those submitted, no second gate is appended, the "gated" label is not set,
\* no job is submitted and the gated counters stay.
C8_AlreadyGatedOnlyLabelled ==
    [][(HandleStep /\ lastIn'.decode = "ok" /\ ~Ignorable(pod) /\ HasGate(pod)) =>
        /\ resp'.kind = "patch" =>
            resp'.pod =
                [Marshal(pod) EXCEPT !.labels =
                    MapOf(WithLabel(pod.labels.m, NodeAffinityLabel,
                                    NodeAffinityLabelValueNotSet))]
        /\ tasks' = tasks /\ submits' = submits
        /\ GatedPods' = GatedPods /\ GatedPodsGauge' = GatedPodsGauge]_vars

C8_Witness ==
    /\ Decoded /\ resp.kind = "patch"
    /\ ~Ignorable(orig)
    /\ orig.gates = ListOf(<<SchedulingGateName, "other-gate">>)
    /\ orig.labels = NilMap
    /\ resp.pod.gates = orig.gates

\* C9: for a gated pod the response depends on json.Marshal alone, not on
\* whether the pool took the job; no step of a job changes the response; and
\* every Submit is made once: its job is in the pool or finished, or its
\* failure was logged.
C9_ResponseIndependentOfTask ==
    /\ [](lastIn.path = "gated" =>
            /\ (resp.kind = "patch") = (lastIn.marshal = "ok")
            /\ resp.kind = "patch" => HasGate(resp.pod)
            /\ resp.kind # "patch" => resp = Errored(500))
    /\ [](/\ submits = GatedPods
          /\ Cardinality(tasks) + Cardinality(results) + submitErrs = submits)
    /\ [][~HandleStep => (resp' = resp /\ submits' = submits)]_vars

C9_Witness ==
    /\ lastIn.path = "gated"
    /\ lastIn.submit = "failed"
    /\ resp.kind = "patch"
    /\ \E r \in results : r.result = "exhausted"

\* C10: a job emits the event at most once, only in an attempt whose Get
\* found the pod of its namespace and name, on the pod that Get returned, and
\* a job that emitted the event is no longer in the pool (it polls no more).
C10_EventAtMostOnce ==
    /\ [](\A i, j \in DOMAIN events : events[i].task = events[j].task => i = j)
    /\ [](\A i \in DOMAIN events : \A t \in tasks : t.id # events[i].task)
    /\ [][events' # events =>
            \E t \in tasks :
                /\ t.status = "polling"
                /\ visible /\ pod.ns = t.ns /\ pod.name = t.name
                /\ events' = Append(events, Event(t.id, pod))]_vars

C10_Witness ==
    /\ Len(events) = 2
    /\ events[1].task # events[2].task
    /\ HasGate(events[1].obj)

-----------------------------------------------------------------------------
(* Properties of the job's polling *)

\* the job t of the pool finishes in this step with result r
Finishes(t, r) ==
    /\ \A u \in tasks' : u.id # t.id
    /\ r \in results' \ results
    /\ r.task = t.id

\* the job t of the pool makes an attempt in this step and goes on to the next
GoesOn(t) ==
    \E u \in tasks' : u.id = t.id /\ u.status = "polling" /\ u.polls = t.polls + 1

\* what a step of a job leaves alone: the pod, the response, the counters,
\* the submissions and their log lines
JobFrame ==
    UNCHANGED <<pod, orig, resp, lastIn, visible, ProcessedPodsWH, GatedPods,
                GatedPodsGauge, ResponseTime, submits, submitErrs>>

\* C11: a job in the pool has made fewer than 15 Get calls and has only seen
\* "not found" answers; an attempt that goes on emits no event; a job ends as
\* exhausted only with its 15th Get; a job that ends as exhausted or on an
\* error emits no event, is logged, is never polled again, and its step
\* changes nothing else (no new job, no change of the response or the pod).
C11_RetryOnNotFoundOnly ==
    /\ [](\A t \in tasks :
            /\ t.polls < Steps
            /\ t.last \in {"none", "notfound"}
            /\ \A r \in results : r.task # t.id)
    /\ [][\A t \in tasks : (t.status = "polling" /\ t \notin tasks') =>
            /\ JobFrame
            /\ \A u \in tasks' : \E v \in tasks : v.id = u.id
            /\ \/ GoesOn(t) /\ events' = events /\ results' = results
               \/ \E r \in results' :
                    /\ Finishes(t, r)
                    /\ r.logged = (r.result # "found")
                    /\ r.result = "exhausted" => t.polls + 1 = 15
                    /\ r.result # "found" => events' = events]_vars

C11_Witness ==
    /\ \E r \in results : r.result = "exhausted" /\ r.logged
    /\ \E r \in results : r.result = "error" /\ r.logged
    /\ events = <<>>

\* C12 as stated: a job that exhausts its steps has slept 2 ms * (2^15 - 1) =
\* 65,534 ms between its polls, which is less than its timeout of 2 minutes.
C12_MaxWaitIs65534 ==
    [][\A t \in tasks : \A r \in results' :
        (Finishes(t, r) /\ r.result = "exhausted") =>
            /\ t.waited = 2 * (2^15 - 1)
            /\ t.waited = 65534
            /\ t.waited < TaskTimeout]_vars

\* the answer the cluster API has for the job's Get
ApiAnswer(t) ==
    IF visible /\ pod.ns = t.ns /\ pod.name = t.name THEN "found" ELSE "notfound"

\* C13: whatever the state of the admission request's context, a polling job
\* whose own deadline has not passed still gets the cluster's answer to its
\* Get; the cancellation of the request's context changes nothing else of
\* the job; and a job leaves the pool only through an attempt that ends it
\* as found, exhausted or failed on an error.
C13_OwnCancellationScope ==
    /\ [](\A t \in tasks :
            (t.status = "polling" /\ ~t.expired) => ApiAnswer(t) \in GetAnswers(t))
    /\ [][\A t \in tasks :
            /\ (\A u \in tasks' : u.id # t.id) =>
                    \E r \in results' :
                        /\ Finishes(t, r)
                        /\ t.status = "polling"
                        /\ r.result \in {"found", "exhausted", "error"}
            /\ \A u \in tasks' : (u.id = t.id /\ u.reqCtx # t.reqCtx) =>
                    /\ u = [t EXCEPT !.reqCtx = "done"]
                    /\ results' = results /\ events' = events]_vars

C13_Witness ==
    /\ visible
    /\ \E t \in tasks :
        t.reqCtx = "done" /\ t.status = "polling" /\ t.polls >= 1 /\ ~t.expired

\* the step is a step of a job of the pool
JobStep ==
    /\ ~HandleStep
    /\ tasks' # tasks \/ results' # results \/ events' # events

\* C14: in every interleaving with the reconciler that removes the gate, a
\* step of a job changes neither the pod (gates, labels, affinity) nor its
\* visibility; the event is recorded on the pod as the cluster holds it;
\* and the job that emits it ends as found, without an error log line, also
\* when the gate is already gone.
C14_TaskOnlyReads ==
    /\ [][JobStep => (pod' = pod /\ visible' = visible)]_vars
    /\ [][events' # events =>
            /\ Len(events') = Len(events) + 1
            /\ events'[Len(events')].obj = pod
            /\ \E r \in results' \ results :
                /\ r.task = events'[Len(events')].task
                /\ r.result = "found"
                /\ ~r.logged]_vars

C14_Witness ==
    /\ lastIn.path = "gated"
    /\ HasGate(resp.pod)
    /\ Len(events) = 1
    /\ ~HasGate(events[1].obj)
    /\ ~HasGate(pod)
    /\ \E r \in results : r.task = events[1].task /\ r.result = "found"

\* the step is one invocation of Handle: its deferred HistogramObserve ran
Invocation == ResponseTime' = ResponseTime + 1

\* the invocation reached the append of the gate
GateAppended == Invocation /\ lastIn'.path = "gated"

\* C15: the processed counter counts every invocation of Handle, those that
\* fail to decode or ignore the pod included, and nothing else; the gated
\* counters count the invocations that appended the gate, also when the
\* submission of the job failed; so gated <= processed always.
C15_CountersCountInvocations ==
    /\ [](GatedPods <= ProcessedPodsWH /\ GatedPodsGauge = GatedPods)
    /\ [][/\ ProcessedPodsWH' = ProcessedPodsWH + (IF Invocation THEN 1 ELSE 0)
          /\ GatedPods' = GatedPods + (IF GateAppended THEN 1 ELSE 0)
          /\ (Invocation /\ pod'.gates.l # pod.gates.l) => GateAppended
          /\ (Invocation /\ submitErrs' # submitErrs) => GatedPods' = GatedPods + 1
          /\ Invocation \/ ResponseTime' = ResponseTime]_vars

C15_Witness ==
    /\ ProcessedPodsWH = 2
    /\ GatedPods = 1
    /\ lastIn.path = "gated"
    /\ lastIn.submit = "failed"
    /\ submitErrs = 1

-----------------------------------------------------------------------------
(* The image cache *)

\* the calls that have returned
Returned == {i \in DOMAIN calls : calls[i].pc = "done"}

\* C16: for every cache key, at most one remote fetch is in flight at any
\* time; every call that waits does so for a fetch of its own key that is in
\* flight; and the calls that waited for the same fetch got the same
\* architecture set or the same error.
C16_SingleFlight ==
    /\ \A f \in inflight, g \in inflight : f.key = g.key => f = g
    /\ \A i \in DOMAIN calls :
            calls[i].pc = "waiting" =>
                \E f \in inflight : f.id = calls[i].flight /\ f.key = calls[i].key
    /\ \A i \in Returned, j \in Returned :
            (calls[i].flight # 0 /\ calls[i].flight = calls[j].flight) =>
                /\ calls[i].key = calls[j].key
                /\ calls[i].got = calls[j].got

C16_Witness ==
    \E i \in Returned, j \in Returned :
        /\ i < j
        /\ calls[j].flight = i
        /\ calls[i].flight = i
        /\ ~calls[i].got.err
        /\ \E f \in inflight : f.key # calls[i].key

\* the step is the arrival of a call; the call that arrived
CallArrives == Len(calls') = Len(calls) + 1
Arrived == calls'[Len(calls')]

\* the step is the end of the fetch f
FetchEnds(f) == f \in inflight /\ f \notin inflight'

\* C17: a call with skipCache=false whose key is cached returns the cached
\* set and starts no fetch; one that misses is served by a remote fetch
\* whose successful result is stored; a call with skipCache=true is always
\* served by a remote fetch, never by the cache, and the cache changes only
\* when a fetch ends for which a call with skipCache=false waited, so a call
\* with skipCache=true does not change what later cached lookups return.
C17_CacheSemantics ==
    /\ [][CallArrives =>
            /\ cache' = cache
            /\ (~Arrived.skipCache /\ cache[Arrived.key].present) =>
                    /\ Arrived.pc = "done"
                    /\ Arrived.got = Resolved(cache[Arrived.key].archs)
                    /\ inflight' = inflight
            /\ (Arrived.skipCache \/ ~cache[Arrived.key].present) =>
                    /\ Arrived.pc = "waiting"
                    /\ \E f \in inflight' : f.key = Arrived.key /\ f.id = Arrived.flight]_vars
    /\ [][\A f \in inflight : FetchEnds(f) =>
            LET ws == {i \in DOMAIN calls :
                            calls[i].pc = "waiting" /\ calls[i].flight = f.id}
                users == {i \in ws : ~calls[i].skipCache}
            IN  /\ \A k \in ImageKeys \ {f.key} : cache'[k] = cache[k]
                /\ users = {} => cache' = cache
                /\ \A i \in ws : calls'[i].pc = "done"
                /\ \A i \in users :
                        IF calls'[i].got.err
                        THEN cache' = cache
                        ELSE cache'[f.key] = Entry(calls'[i].got.archs)]_vars
    /\ [][cache' # cache => \E f \in inflight : FetchEnds(f)]_vars
    /\ [](\A i \in Returned : calls[i].skipCache => calls[i].flight # 0)

C17_Witness ==
    \E i \in Returned, j \in Returned :
        /\ i < j
        /\ calls[i].key = calls[j].key
        /\ calls[i].skipCache /\ ~calls[i].got.err
        /\ ~calls[j].skipCache /\ calls[j].flight = 0
        /\ calls[j].got # calls[i].got
        /\ cache[calls[j].key] = Entry(calls[j].got.archs)

-----------------------------------------------------------------------------
(* The placement functions *)

\* the distinct images of the pod: image and whether it is always pulled
DistinctImages ==
    {<<containers[i].image, containers[i].imagePullPolicy = "Always">> :
        i \in DOMAIN containers}

\* the architectures every resolved image supports
CommonArchitectures ==
    {a \in {"amd64", "arm64", "s390x"} : \A r \in resolved : a \in r.answer.archs}

\* the elements of a list
Elements(l) == {l[i] : i \in DOMAIN l}

Alphabetical(a, b) ==
    <<a, b>> \in {<<"amd64", "arm64">>, <<"amd64", "s390x">>, <<"arm64", "s390x">>}

\* C19: when the intersection is not empty, getArchitecturePredicate returns
\* {architecture label, In, the intersection in alphabetical order}, in
\* whatever order the images were resolved and the intersection listed; when
\* it is empty, {no-supported-architecture label, Exists} without values;
\* when an image cannot be resolved, an error and the zero-valued expression.
C19_ArchitecturePredicate ==
    (predicate.done /\ containers # <<>>) =>
        LET e == predicate.expr
        IN  IF \E r \in resolved : r.answer.err
            THEN /\ predicate.err
                 /\ e.key = "" /\ e.operator = "" /\ e.values = NilList
            ELSE IF CommonArchitectures # {}
            THEN /\ ~predicate.err
                 /\ e.key = ArchLabel /\ e.operator = "In"
                 /\ ~e.values.isNil
                 /\ Elements(e.values.l) = CommonArchitectures
                 /\ \A i \in DOMAIN e.values.l, j \in DOMAIN e.values.l :
                        i < j => Alphabetical(e.values.l[i], e.values.l[j])
            ELSE /\ ~predicate.err
                 /\ e.key = NoSupportedArchLabel /\ e.operator = "Exists"
                 /\ e.values = NilList

C19_Witness ==
    /\ predicate.done
    /\ ~predicate.err
    /\ Cardinality(resolved) >= 2
    /\ Len(predicate.expr.values.l) = 2
    /\ predicate.expr.values.l # intersection.arches.l

\* the required clause of the affinity holds no term
NoTerms(a) ==
    \/ a.isNil
    \/ a.nodeAffinity.isNil
    \/ a.nodeAffinity.required.isNil
    \/ Len(a.nodeAffinity.required.terms) = 0

\* C20: for a pod without affinity, without node affinity, without required
\* clause or with a required clause of zero terms, setting the architecture
\* requirement gives a required clause with exactly one term whose only
\* match expression is the predicate.
C20_OneTermWhenNone ==
    (predicate.done /\ ~predicate.err /\ containers = <<>> /\ NoTerms(affinity0)) =>
        /\ ~affinity.isNil
        /\ ~affinity.nodeAffinity.isNil
        /\ ~affinity.nodeAffinity.required.isNil
        /\ Len(affinity.nodeAffinity.required.terms) = 1
        /\ affinity.nodeAffinity.required.terms[1].matchExpressions = <<predicate.expr>>

C20_Witness ==
    /\ predicate.done
    /\ ~predicate.err
    /\ ~affinity0.isNil
    /\ ~affinity0.nodeAffinity.isNil
    /\ affinity0.nodeAffinity.required.isNil
    /\ affinity0.nodeAffinity.preferred # <<>>
    /\ Len(affinity.nodeAffinity.required.terms) = 1
    /\ predicate.expr.key = NoSupportedArchLabel

\* the requirement was set on a pod whose required clause held terms
SetOnTerms ==
    /\ predicate.done /\ ~predicate.err /\ containers = <<>>
    /\ applied >= 1
    /\ ~NoTerms(affinity0)

\* the required terms of an affinity
Terms(a) == a.nodeAffinity.required.terms

\* the places of term that hold an expression with key k
Keyed(term, k) == {i \in DOMAIN term.matchExpressions : term.matchExpressions[i].key = k}

Others(term, k) == SelectSeq(term.matchExpressions, LAMBDA e : e.key # k)

AppliedAgain == applied >= 1 /\ applied' = applied + 1

\* C23: setting the same requirement a second time changes nothing: no term
\* is added and no expression duplicated, the affinity is what the first
\* application left.
C23_Idempotent == [][AppliedAgain => affinity' = affinity]_vars

C23_Witness ==
    /\ applied = 2
    /\ ~NoTerms(affinity0)
    /\ Len(Terms(affinity0)) = 2
    /\ Keyed(Terms(affinity0)[1], predicate.expr.key) # {}
    /\ Keyed(Terms(affinity0)[2], predicate.expr.key) = {}
    /\ affinity # affinity0

\* C24: when the images of the pod cannot all be inspected,
\* SetNodeAffinityArchRequirement returns the error and the affinity of the
\* pod is exactly what it was before the call: no term created, no
\* expression added.
C24_ErrorLeavesAffinity ==
    (predicate.done /\ containers = <<>> /\ intersection.err) =>
        /\ predicate.err
        /\ applied = 0
        /\ affinity = affinity0

C24_Witness ==
    /\ predicate.done
    /\ intersection.err
    /\ predicate.err
    /\ ~NoTerms(affinity0)
    /\ Len(Terms(affinity)) = 2
    /\ Keyed(Terms(affinity)[2], ArchLabel) = {}

-----------------------------------------------------------------------------
(* The architecture labels *)

\* the keys of the labels of a pod
LabelKeys(p) == DOMAIN p.labels.m

\* the state follows a successful resolution of the pod
Labelled == intersection.done /\ ~intersection.err /\ predicate.done

\* the state follows a call of ensureArchitectureLabels by a caller
LabelledDirectly == ~intersection.done /\ predicate.done

\* C25: after every successful resolution of the pod, also a repeated one
\* and also one that finds no common architecture, exactly one of the
\* single-architecture, multi-architecture and no-supported-architecture
\* labels is on the pod, and the per-architecture labels on it are exactly
\* those of the values of the latest predicate.
C25_ExactlyOneCategory ==
    Labelled =>
        /\ Cardinality(LabelKeys(pod) \cap
                {SingleArchLabel, MultiArchLabel, NoSupportedArchLabel}) = 1
        /\ \A a \in Architectures :
                ArchLabelValue(a) \in LabelKeys(pod)
                    <=> a \in Elements(predicate.expr.values.l)

\* C26: on a pod without labels ensureArchitectureLabels sets exactly: for
\* an empty value list the no-supported-architecture key; for one value the
\* single-architecture key and the key of that architecture; for two or
\* more the multi-architecture key and one key per value; for a nil value
\* list nothing; every label it sets has the empty value.
C26_LabelsOnUnlabelledPod ==
    (LabelledDirectly /\ LabelKeys(orig) = {}) =>
        LET values == predicate.expr.values
            perArch == {ArchLabelValue(a) : a \in Elements(values.l)}
        IN  /\ LabelKeys(pod) =
                    IF values.isNil THEN {}
                    ELSE IF Len(values.l) = 0 THEN {NoSupportedArchLabel}
                    ELSE IF Len(values.l) = 1 THEN {SingleArchLabel} \cup perArch
                    ELSE {MultiArchLabel} \cup perArch
            /\ values.isNil => pod.labels = orig.labels
            /\ \A k \in LabelKeys(pod) : pod.labels.m[k] = ""

C26_Witness ==
    /\ LabelledDirectly
    /\ orig.labels = NilMap
    /\ Len(predicate.expr.values.l) = 2
    /\ Cardinality(LabelKeys(pod)) = 3
    /\ MultiArchLabel \in LabelKeys(pod)

-----------------------------------------------------------------------------
(* The gate functions *)

\* the gates of a list that do not have the well-known name, in their order
OtherGates(l) == SelectSeq(l, LAMBDA g : g # "multiarch.openshift.io/scheduling-gate")

\* C27: HasSchedulingGate is true exactly when the gate list of the pod holds
\* a gate of the well-known name; RemoveSchedulingGate removes that gate
\* only and keeps the other gates in their order, leaves a list that held
\* only that gate, or none, empty and not nil, leaves a nil list nil, and
\* changes nothing else of the pod.
C27_GateFunctions ==
    /\ lastIn.path \in {"has gate", "has no gate"} =>
            /\ lastIn.path = "has gate" <=> HasGate(orig)
            /\ pod = orig
    /\ lastIn.path = "gate removed" =>
            /\ pod.gates.isNil <=> orig.gates.isNil
            /\ pod.gates.l = OtherGates(orig.gates.l)
            /\ [pod EXCEPT !.gates = orig.gates] = orig

C27_Witness ==
    /\ lastIn.path = "gate removed"
    /\ Len(orig.gates.l) = 2
    /\ HasGate(orig)
    /\ orig.gates.l[2] = "other-gate"
    /\ pod.gates.l = <<"other-gate">>

-----------------------------------------------------------------------------
(* The distinct images of a pod *)

\* the reference an image is inspected under
NameOf(image) ==
    CASE image = "bar/foo:latest" -> "//bar/foo:latest"
      [] image = "bar/baz:latest" -> "//bar/baz:latest"

\* the containers and init containers of the pod
AllContainers ==
    {containers[i] : i \in DOMAIN containers} \cup
    {initContainers[i] : i \in DOMAIN initContainers}

\* the distinct pairs of image and always-pulled over all containers
DistinctPairs == {<<c.image, c.imagePullPolicy = "Always">> : c \in AllContainers}

\* C28: imagesNamesSet returns, over the containers and the init containers,
\* exactly one entry per distinct pair of normalized image name and
\* skipCache, where skipCache is true exactly for the pull policy Always:
\* every container has its entry, every entry has a container, and there are
\* as many entries as distinct pairs, so an image used with and without
\* Always has two.
C28_ImagesNamesSet ==
    images # {} =>
        /\ \A c \in AllContainers :
                \E e \in images :
                    /\ e.imageName = NameOf(c.image)
                    /\ e.skipCache <=> c.imagePullPolicy = "Always"
        /\ \A e \in images :
                \E c \in AllContainers :
                    /\ e.imageName = NameOf(c.image)
                    /\ e.skipCache <=> c.imagePullPolicy = "Always"
        /\ Cardinality(images) = Cardinality(DistinctPairs)

C28_Witness ==
    /\ Len(containers) = 3
    /\ containers[1] = containers[3]
    /\ Len(initContainers) = 1
    /\ \A i \in DOMAIN containers : containers[i].image # initContainers[1].image
    /\ Cardinality(images) = 3
    /\ \E e, f \in images : e.imageName = f.imageName /\ e.skipCache /\ ~f.skipCache

-----------------------------------------------------------------------------
(* Termination and liveness of the job *)

\* the job of this id runs
Running(id) == \E t \in tasks : t.id = id /\ t.status = "polling"

\* the job of this id has ended
Ended(id) == \E r \in results : r.task = id

\* C29: a job that runs ends, whatever the API answers to its Gets (found,
\* not found, another error, the expiry of its context); a job of the pool
\* has made fewer than 15 Gets, so it ends with its 15th at the latest; and a
\* job that ended stays ended and is never in the pool again.
C29_TaskTerminates ==
    /\ \A id \in 1..MaxRequests : Running(id) ~> Ended(id)
    /\ [](\A t \in tasks : t.polls < 15 /\ ~Ended(t.id))
    /\ [][\A r \in results : r \in results' /\ \A t \in tasks' : t.id # r.task]_vars

C29_Witness ==
    /\ \E r \in results : r.result = "exhausted"
    /\ \E r \in results : r.result = "error"
    /\ tasks = {}

\* the events recorded by the job of this id
EventsOf(id) == {i \in DOMAIN events : events[i].task = id}

\* the job of this id is in the pool, queued or running, and the cluster
\* holds its pod
VisibleInTime(id) ==
    \E t \in tasks : t.id = id /\ visible /\ pod.ns = t.ns /\ pod.name = t.name

-----------------------------------------------------------------------------
(* The pod that is configured for an architecture *)

\* the required terms of the affinity, none when a level of it is absent
RequiredTerms ==
    IF affinity.isNil \/ affinity.nodeAffinity.isNil \/ affinity.nodeAffinity.required.isNil
    THEN <<>>
    ELSE affinity.nodeAffinity.required.terms

-----------------------------------------------------------------------------
(* The life of the gate *)

\* the last operation inserted the gate into the pod: Handle on its gated
\* path with the patch built, or ensureSchedulingGate
Inserted ==
    \/ lastIn.path = "gate ensured"
    \/ lastIn.path = "gated" /\ lastIn.marshal = "ok"

\* C32: when the gate is inserted into a pod whose gate list does not hold
\* it and is then removed by RemoveSchedulingGate, the gate list is the
\* original one in the original order; a list that was absent comes back
\* empty, not absent.
C32_GateRoundTrip ==
    [][(Inserted /\ ~HasGate(orig) /\ lastIn'.path = "gate removed") =>
            /\ pod'.gates.l = orig.gates.l
            /\ ~pod'.gates.isNil]_vars

C32_Witness ==
    /\ lastIn.path = "gate removed"
    /\ orig.gates.l = <<"other-gate", "multiarch.openshift.io/scheduling-gate">>
    /\ "multiarch.openshift.io/scheduling-gate" \in DOMAIN orig.labels.m
    /\ pod.gates.l = <<"other-gate">>
    /\ GatedPods >= 1

-----------------------------------------------------------------------------
(* The registries configuration *)

\* the entry has nothing set: no Insecure, Allowed or Blocked, no mirror
Unset(c) ==
    c.Insecure = "nil" /\ c.Allowed = "nil" /\ c.Blocked = "nil" /\ c.Mirrors = <<>>

\* the step is a call of cleanupAllRegistryConfIfEmpty
CleanupAllStep == lastCall'.op = "cleanupAllRegistryConfIfEmpty"

\* C33 as claimed: after cleanupAllRegistryConfIfEmpty, whatever the list was,
\* no entry with nothing set is left in Registries or in registriesMap, and
\* every entry with something set is still in the list exactly once and in
\* the map.
C33_NoEmptyEntryLeft ==
    [][CleanupAllStep =>
        /\ \A i \in DOMAIN Registries' : ~Unset(registryConfs'[Registries'[i]])
        /\ \A k \in DOMAIN registriesMap' : ~Unset(registryConfs'[registriesMap'[k]])
        /\ \A i \in DOMAIN Registries :
                ~Unset(registryConfs[Registries[i]]) =>
                    /\ Cardinality({j \in DOMAIN Registries' :
                                        Registries'[j] = Registries[i]}) = 1
                    /\ \E k \in DOMAIN registriesMap' :
                            registriesMap'[k] = Registries[i]]_vars

\* the locations of the entries of the list, in its order
ListLocations == [i \in DOMAIN Registries |-> registryConfs[Registries[i]].Location]

\* C34: from defaultRegistriesConf, under any sequence of
\* getRegistryConfOrCreate, cleanupRegistryConfIfEmpty and
\* cleanupAllRegistryConfIfEmpty calls, the locations of the entries of the
\* list are pairwise distinct and are the keys of the map, and each key maps
\* to the object of that location in the list; getRegistryConfOrCreate on a
\* location the map holds returns that object and adds nothing.
C34_ListAndMapAgree ==
    /\ [](/\ \A i, j \in DOMAIN Registries :
                ListLocations[i] = ListLocations[j] => i = j
          /\ {ListLocations[i] : i \in DOMAIN Registries} = DOMAIN registriesMap
          /\ \A i \in DOMAIN Registries :
                registriesMap[ListLocations[i]] = Registries[i])
    /\ [][(lastCall'.op = "getRegistryConfOrCreate"
           /\ lastCall'.registry \in DOMAIN registriesMap) =>
                /\ lastCall'.rc = registriesMap[lastCall'.registry]
                /\ Registries' = Registries
                /\ registriesMap' = registriesMap]_vars

C34_Witness ==
    /\ Len(Registries) = 3
    /\ lastCall.op = "getRegistryConfOrCreate"
    /\ lastCall.rc = Registries[1]
    /\ Registries[1] > Registries[2]
    /\ \E i \in DOMAIN Registries : registryConfs[Registries[i]].Mirrors # <<>>

-----------------------------------------------------------------------------
(* The policy configuration *)

\* C35 as claimed: after resetTransports the policy of the caller has the
\* default transports: docker-daemon accepts anything for the empty scope,
\* docker and atomic have no scope, so no reject rule is left.
C35_ResetGivesDefaults ==
    lastCall.op = "resetTransports" =>
        /\ DOMAIN Transports = {"docker-daemon", "docker", "atomic"}
        /\ DOMAIN Transports["docker-daemon"] = {""}
        /\ Transports["docker-daemon"][""] = <<[Type |-> "insecureAcceptAnything"]>>
        /\ DOMAIN Transports["docker"] = {}
        /\ DOMAIN Transports["atomic"] = {}

-----------------------------------------------------------------------------
(* The folder of the certificates *)

\* the name has two dots at position i
DotsAt(name, i) == i + 1 <= Len(name) /\ name[i] = "." /\ name[i + 1] = "."

\* the digits of a port
IsPort(s) == Len(s) >= 1 /\ \A i \in DOMAIN s : s[i] = "5"

\* C36: getFolderName returns the registry name as it is when it has no
\* "..", and otherwise with the first ".." rewritten to ":" and every other
\* character unchanged; when the name is a host without ".." and without a
\* dot at its end, followed by ".." and a port number, the result is the host,
\* ":" and the port.
C36_FolderName ==
    lastCall.op = "getFolderName" =>
        LET name == tuple.registry
            folder == lastCall.name
        IN  /\ (\A i \in DOMAIN name : ~DotsAt(name, i)) => folder = name
            /\ \A i \in DOMAIN name :
                    (DotsAt(name, i) /\ \A k \in 1..(i - 1) : ~DotsAt(name, k)) =>
                        /\ Len(folder) = Len(name) - 1
                        /\ \A k \in 1..(i - 1) : folder[k] = name[k]
                        /\ folder[i] = ":"
                        /\ \A k \in (i + 1)..Len(folder) : folder[k] = name[k + 1]
            /\ \A i \in DOMAIN name :
                    (/\ DotsAt(name, i)
                     /\ i >= 2 /\ name[i - 1] # "."
                     /\ \A k \in 1..(i - 1) : ~DotsAt(name, k)
                     /\ IsPort(SubSeq(name, i + 2, Len(name)))) =>
                        folder = SubSeq(name, 1, i - 1) \o <<":">>
                                 \o SubSeq(name, i + 2, Len(name))

C36_Witness ==
    /\ lastCall.op = "getFolderName"
    /\ tuple.registry = <<"r", ".", "r", ".", ".", "5">>
    /\ lastCall.name = <<"r", ".", "r", ":", "5">>

====
